---------------------------- MODULE Spec2Model ----------------------------
(***************************************************************************)
(* Case Tracker Apps Script: the monthly contact-reminder engine           *)
(* (ContactReminders.js), the court-summary reminder engine                *)
(* (SummaryReminders.js) and the helpers they call, as a state machine.    *)
(*                                                                         *)
(* Text is a sequence of one-character strings, so that trim, split, join, *)
(* toLowerCase and the sheet-name pattern are computed as the script       *)
(* computes them.  A point in time is [day, hour]: day counts days from    *)
(* 2024-01-01 (a Monday) in the script's time zone, hour is the hour of    *)
(* that day.  Date cells of a sheet hold midnight of their day.            *)
(***************************************************************************)
EXTENDS Integers, Sequences, FiniteSets, TLC

VARIABLES
    clock,          \* the calendar day on which runs take place
    varTable,       \* rows <<key, value>> of the "Variables" tab
    pc,             \* position of the running function
    today,          \* const today = new Date() of the run
    completeMonths, \* the run's completeMonths array
    startMonths,    \* completeMonths as parsed at the start of the run
    sheetIdx,       \* position of for (let sheet of allSheets)
    decision,       \* what the loop body did with the sheet at sheetIdx
    data,           \* sheet.getDataRange().getValues() without the header row
    rowIdx,         \* number of data rows the row loop has finished
    remindersSent,  \* the counter of processContactSheet
    events,         \* per finished row of this sheet: what the loop did
    outbox,         \* GmailApp.sendEmail requests made for this sheet
    writes,         \* setValue calls that took effect on this sheet
    nameArg,        \* argument handed to getMonthNumberFromName
    nameResult,     \* its result
    invocation,     \* number of sendSummaryReminders runs started on this day
    mailLog,        \* summary emails requested today and on the day before
    build,          \* the file whose function definitions the project runs
    proc,           \* per execution: the function it runs, its position and its locals
    scriptCache,    \* CacheService script cache, key "globalVariables"
    scriptProperties \* script property "globalVariablesJSON"

vars == <<clock, varTable, pc, today, completeMonths, startMonths, sheetIdx, decision,
          data, rowIdx, remindersSent, events, outbox, writes,
          nameArg, nameResult, invocation, mailLog, build, proc, scriptCache, scriptProperties>>

-----------------------------------------------------------------------------
(* Bounds of the model *)

MaxRows == 2
NumDays == 15
MaxSummaryRows == 2
NumSummaryDays == 24
MaxCut == 2
MaxInvocations == 2
\* The frames a stack of resolver calls can hold
MaxDepth == 12

-----------------------------------------------------------------------------
(* Text *)

UpperLetters == <<"A", "B", "C", "D", "E", "F", "G", "H", "I", "J", "K", "L", "M",
                  "N", "O", "P", "Q", "R", "S", "T", "U", "V", "W", "X", "Y", "Z">>
LowerLetters == <<"a", "b", "c", "d", "e", "f", "g", "h", "i", "j", "k", "l", "m",
                  "n", "o", "p", "q", "r", "s", "t", "u", "v", "w", "x", "y", "z">>

Range(s) == {s[k] : k \in 1..Len(s)}

UpperSet == Range(UpperLetters)
LetterSet == Range(UpperLetters) \cup Range(LowerLetters)

IsLetter(c) == c \in LetterSet

ToLowerChar(c) ==
    IF c \in UpperSet
    THEN LowerLetters[CHOOSE k \in 1..Len(UpperLetters) : UpperLetters[k] = c]
    ELSE c

toLowerCase(s) == [k \in 1..Len(s) |-> ToLowerChar(s[k])]

RECURSIVE TrimLeft(_)
TrimLeft(s) == IF s # <<>> /\ Head(s) = " " THEN TrimLeft(Tail(s)) ELSE s

RECURSIVE TrimRight(_)
TrimRight(s) ==
    IF s # <<>> /\ s[Len(s)] = " " THEN TrimRight(SubSeq(s, 1, Len(s) - 1)) ELSE s

trim(s) == TrimRight(TrimLeft(s))

\* s.split(","): the pieces between the commas, empty pieces kept
RECURSIVE split(_)
split(s) ==
    IF \A k \in 1..Len(s) : s[k] # ","
    THEN <<s>>
    ELSE LET c == CHOOSE k \in 1..Len(s) : s[k] = "," /\ \A j \in 1..(k - 1) : s[j] # ","
         IN  <<SubSeq(s, 1, c - 1)>> \o split(SubSeq(s, c + 1, Len(s)))

\* list.join(", ")
\* join keeping the last element only
join_LastOnly(list) == IF list = <<>> THEN <<>> ELSE list[Len(list)]

RECURSIVE join(_)
join(list) ==
    IF list = <<>> THEN <<>>
    ELSE IF Len(list) = 1 THEN list[1]
    ELSE list[1] \o <<",", " ">> \o join(Tail(list))

SelectNonEmpty(list) == SelectSeq(list, LAMBDA m : m # <<>>)

Includes(list, x) == \E k \in 1..Len(list) : list[k] = x

-----------------------------------------------------------------------------
(* Calendar: what the Date methods return for day numbers of 2024 and 2025 *)

MonthLengths == <<31, 29, 31, 30, 31, 30, 31, 31, 30, 31, 30, 31,
                  31, 28, 31, 30, 31, 30, 31, 31, 30, 31, 30, 31>>

RECURSIVE MonthStart(_)
MonthStart(k) == IF k = 1 THEN 0 ELSE MonthStart(k - 1) + MonthLengths[k - 1]

MonthIndexOf(d) ==
    CHOOSE k \in 1..Len(MonthLengths) :
        MonthStart(k) <= d /\ d < MonthStart(k) + MonthLengths[k]

\* The month index of every day of the two years, computed once
MonthTable == [d \in 1..MonthStart(Len(MonthLengths) + 1) |-> MonthIndexOf(d - 1)] \o <<>>

MonthIndex(d) == MonthTable[d + 1]

getFullYear(t) == 2024 + ((MonthIndex(t.day) - 1) \div 12)
getMonth(t) == (MonthIndex(t.day) - 1) % 12
getDate(t) == t.day - MonthStart(MonthIndex(t.day)) + 1
getDay(t) == (t.day + 1) % 7

Hours(t) == t.day * 24 + t.hour
Midnight(d) == [day |-> d, hour |-> 0]

FloorDays(h) == h \div 24
CeilDays(h) == -((-h) \div 24)

\* new Date(y, m + 1, 0): midnight of the last day of date's month
LastDayOfMonth(t) ==
    Midnight(MonthStart(MonthIndex(t.day)) + MonthLengths[MonthIndex(t.day)] - 1)

\* daysRemainingInMonth rounding down instead of up
daysRemainingInMonth_Floor(date) == FloorDays(Hours(LastDayOfMonth(date)) - Hours(date))

\* Math.ceil((lastDay - date) / (1000 * 60 * 60 * 24))
daysRemainingInMonth(date) == CeilDays(Hours(LastDayOfMonth(date)) - Hours(date))

\* formatDate with the day before the month
formatDate_DayFirst(t) == <<getDate(t), getMonth(t) + 1, getFullYear(t)>>

\* Utilities.formatDate(date, GLOBAL_TIMEZONE, "MM/dd/yyyy")
formatDate(t) == <<getMonth(t) + 1, getDate(t), getFullYear(t)>>

-----------------------------------------------------------------------------
(* Configuration values of the run and the tables the engines read *)

MAIN_WORKER_NAME == <<"A", "l">>
MAIN_SUPERVISOR_NAME == <<"S", "u", "e">>
MAIN_WORKER_EMAIL == "al@cps"
MAIN_SUPERVISOR_EMAIL == "sue@cps"
SSM_EMAIL == "ssm@cps"

CompleteMonthsKey == "CONTACT_COMPLETE_MONTHS"

\* ss.getSheets() of the Case Tracker, by sheet name
Workbook ==
    << <<"H", "e", "a", "r", "i", "n", "g", " ", "T", "r", "a", "c", "k", "e", "r">>,
       <<"D", "e", "c", "e", "m", "b", "e", "r", " ", "C", "o", "n", "t", "a", "c", "t", "s">>,
       <<"j", "a", "n", "u", "a", "r", "y", " ", "C", "o", "n", "t", "a", "c", "t", "s">>,
       <<"E", "m", "e", "r", "g", "e", "n", "c", "y", " ", "C", "o", "n", "t", "a", "c", "t", "s">> >>

\* The roster tabs of the Automation Info sheet, in the order they are searched
Roster ==
    << [present |-> TRUE,
        rows |-> << [workerName |-> <<"B", "o", " ">>, workerEmail |-> "bo@cps",
                     supervisorName |-> <<"S", "a", "m">>, supervisorEmail |-> "sam@cps"],
                    [workerName |-> <<"C", "y">>, workerEmail |-> "",
                     supervisorName |-> <<"S", "a", "m">>, supervisorEmail |-> "sam@cps"] >>],
       [present |-> TRUE,
        rows |-> << [workerName |-> <<"B", "o">>, workerEmail |-> "bo@other",
                     supervisorName |-> <<"T", "i", "m">>, supervisorEmail |-> "tim@other"],
                    [workerName |-> <<"A", "l">>, workerEmail |-> "al@other",
                     supervisorName |-> <<"T", "i", "m">>, supervisorEmail |-> "tim@other"] >>] >>

NotFound ==
    [found |-> FALSE, workerName |-> <<>>, workerEmail |-> "",
     supervisorName |-> <<>>, supervisorEmail |-> ""]

RowMatches(r, name) == r.workerName # <<>> /\ trim(r.workerName) = trim(name)

\* FirstMatch returning the last matching row of the tab
FirstMatch_LastRow(rows, name) ==
    LET k == CHOOSE k \in 1..Len(rows) :
                 RowMatches(rows[k], name)
                 /\ \A j \in (k + 1)..Len(rows) : ~RowMatches(rows[j], name)
    IN  [found |-> TRUE, workerName |-> rows[k].workerName,
         workerEmail |-> rows[k].workerEmail,
         supervisorName |-> rows[k].supervisorName,
         supervisorEmail |-> rows[k].supervisorEmail]

FirstMatch(rows, name) ==
    LET k == CHOOSE k \in 1..Len(rows) :
                 RowMatches(rows[k], name) /\ \A j \in 1..(k - 1) : ~RowMatches(rows[j], name)
    IN  [found |-> TRUE, workerName |-> rows[k].workerName,
         workerEmail |-> rows[k].workerEmail,
         supervisorName |-> rows[k].supervisorName,
         supervisorEmail |-> rows[k].supervisorEmail]

RECURSIVE SearchTabs(_, _)
SearchTabs(tabs, name) ==
    IF tabs = <<>> THEN NotFound
    ELSE IF Head(tabs).present
            /\ \E k \in 1..Len(Head(tabs).rows) : RowMatches(Head(tabs).rows[k], name)
         THEN FirstMatch(Head(tabs).rows, name)
         ELSE SearchTabs(Tail(tabs), name)

\* getWorkerInfoByName finding nobody
getWorkerInfoByName_NotFound(name) == NotFound

getWorkerInfoByName(name) == IF name = <<>> THEN NotFound ELSE SearchTabs(Roster, name)

-----------------------------------------------------------------------------
(* The "Variables" tab and the completed-months value kept in it *)

HasKey(table, key) == \E k \in 1..Len(table) : table[k][1] = key

\* The mapping built from the tab: blank values are skipped, a later row of a key
\* replaces an earlier one; a key without a value reads as the empty text
LoadedValue(table, key) ==
    LET hits == {k \in 1..Len(table) : table[k][1] = key /\ trim(table[k][2]) # <<>>}
    IN  IF hits = {} THEN <<>>
        ELSE trim(table[CHOOSE k \in hits : \A j \in hits : j <= k][2])

\* updateValue(key, newValue): overwrite the key's row if present, append otherwise
updateGlobalVariable(table, key, value) ==
    IF HasKey(table, key)
    THEN LET r == CHOOSE k \in 1..Len(table) :
                      table[k][1] = key /\ \A j \in 1..(k - 1) : table[j][1] # key
         IN  [table EXCEPT ![r] = <<key, value>>]
    ELSE Append(table, <<key, value>>)

\* (CONTACT_COMPLETE_MONTHS || "").split(",").map(m => m.trim()).filter(Boolean)
ParseCompleteMonths(text) ==
    LET pieces == split(text)
    IN  SelectNonEmpty([k \in 1..Len(pieces) |-> trim(pieces[k])])

-----------------------------------------------------------------------------
(* The mapping of the variables: an object is the sequence of its <<key, value>> *)
(* members in the order of their first assignment                               *)

REQUIRED_KEYS ==
    <<"MAIN_WORKER_EMAIL", "MAIN_WORKER_NAME", "MAIN_SUPERVISOR_EMAIL",
      "MAIN_SUPERVISOR_NAME", "SSM_NAME", "SSM_EMAIL">>

KeysOf(obj) == {obj[k][1] : k \in 1..Len(obj)}

hasOwnProperty(obj, key) == key \in KeysOf(obj)

\* obj[key]; a key that is not there reads as undefined, here the empty text
ValueOf(obj, key) ==
    IF hasOwnProperty(obj, key)
    THEN obj[CHOOSE k \in 1..Len(obj) : obj[k][1] = key][2]
    ELSE <<>>

\* obj[key] = value
SetKey(obj, key, value) ==
    IF hasOwnProperty(obj, key)
    THEN [k \in 1..Len(obj) |-> IF obj[k][1] = key THEN <<key, value>> ELSE obj[k]]
    ELSE Append(obj, <<key, value>>)

\* The row loop of loadAutomationInfoSheet: a row with a blank key or a blank
\* value is skipped, the value is trimmed, a later row of a key replaces the value
RECURSIVE LoadRows(_, _)
LoadRows(rows, obj) ==
    IF rows = <<>> THEN obj
    ELSE LET key == Head(rows)[1]
             value == trim(Head(rows)[2])
         IN  LoadRows(Tail(rows),
                      IF key = "" \/ value = <<>> THEN obj ELSE SetKey(obj, key, value))

loadAutomationInfoSheet(table) == LoadRows(table, <<>>)

\* filterVars: all of vars for no keys, else the members named by keys, in the
\* order of keys
\* (next is the mapping after one key of the forEach, bound to its value)
RECURSIVE FilterKeys(_, _, _)
FilterKeys(obj, keys, filtered) ==
    IF keys = <<>> THEN filtered
    ELSE CHOOSE result \in
             {FilterKeys(obj, Tail(keys), next) :
                 next \in {IF hasOwnProperty(obj, Head(keys))
                           THEN SetKey(filtered, Head(keys), ValueOf(obj, Head(keys)))
                           ELSE filtered}} : TRUE

filterVars(obj, keys) == IF keys = <<>> THEN obj ELSE FilterKeys(obj, keys, <<>>)

\* requiredKeys.filter(k => !vars.hasOwnProperty(k) || !vars[k])
missingKeys(obj, requiredKeys) ==
    SelectSeq(requiredKeys, LAMBDA k : ~hasOwnProperty(obj, k) \/ ValueOf(obj, k) = <<>>)

\* JSON.stringify of a mapping and JSON.parse of the text: the text is the
\* sequence of the members as name and text
JSONstringify(obj) == [k \in 1..Len(obj) |-> [name |-> obj[k][1], text |-> obj[k][2]]]

JSONparse(json) == [k \in 1..Len(json) |-> <<json[k].name, json[k].text>>]

\* An entry of the script cache or of the script properties: null when absent
NoEntry == [present |-> FALSE, json |-> <<>>]

EntryOf(obj) == [present |-> TRUE, json |-> JSONstringify(obj)]

-----------------------------------------------------------------------------
(* Sheet names and month names *)

ContactsSuffix == <<" ", "C", "o", "n", "t", "a", "c", "t", "s">>

\* sheetName.match(/^([A-Za-z]+) Contacts$/): the captured name, <<>> for no match
monthMatch(sheetName) ==
    LET n == Len(sheetName) - Len(ContactsSuffix)
    IN  IF n >= 1
           /\ SubSeq(sheetName, n + 1, Len(sheetName)) = ContactsSuffix
           /\ \A k \in 1..n : IsLetter(sheetName[k])
        THEN SubSeq(sheetName, 1, n)
        ELSE <<>>

months ==
    << <<"J", "a", "n", "u", "a", "r", "y">>,
       <<"F", "e", "b", "r", "u", "a", "r", "y">>,
       <<"M", "a", "r", "c", "h">>,
       <<"A", "p", "r", "i", "l">>,
       <<"M", "a", "y">>,
       <<"J", "u", "n", "e">>,
       <<"J", "u", "l", "y">>,
       <<"A", "u", "g", "u", "s", "t">>,
       <<"S", "e", "p", "t", "e", "m", "b", "e", "r">>,
       <<"O", "c", "t", "o", "b", "e", "r">>,
       <<"N", "o", "v", "e", "m", "b", "e", "r">>,
       <<"D", "e", "c", "e", "m", "b", "e", "r">> >>

monthsLowered == [k \in 1..Len(months) |-> toLowerCase(months[k])] \o <<>>

\* getMonthNumberFromName comparing the names as written
getMonthNumberFromName_AsWritten(name) ==
    LET hits == {k \in 1..Len(months) : months[k] = name}
    IN  IF hits = {} THEN -1
        ELSE (CHOOSE k \in hits : \A j \in hits : k <= j) - 1

\* months.findIndex(m => m.toLowerCase() === name.toLowerCase())
getMonthNumberFromName(name) ==
    LET lowered == toLowerCase(name)
        hits == {k \in 1..Len(months) : monthsLowered[k] = lowered}
    IN  IF hits = {} THEN -1
        ELSE (CHOOSE k \in hits : \A j \in hits : k <= j) - 1

-----------------------------------------------------------------------------
(* Rows of a contact sheet *)

EmptyCell == [kind |-> "empty", day |-> 0]
TextCell == [kind |-> "text", day |-> 0]
DateCell(d) == [kind |-> "date", day |-> d]

\* Day number of the calendar date y-m-d (m counted from 1)
DayOf(y, m, d) == MonthStart((y - 2024) * 12 + m) + d - 1

ContactRow(child, seen, by, entered) ==
    [childName |-> child, caseID |-> "C-1", dateSeenRaw |-> seen, seenBy |-> by,
     dateContactEntered |-> entered, lastReminderSent |-> EmptyCell]

NameAl == <<"A", "l">>
NameBo == <<"B", "o">>
NameCy == <<"C", "y">>
NameZed == <<"Z", "e", "d">>

SeenNov == DateCell(DayOf(2024, 11, 20))
SeenDec == DateCell(DayOf(2024, 12, 5))
SeenJan == DateCell(DayOf(2025, 1, 2))

\* The rows a sheet may hold: every branch of the row loop has a row that takes it
RowKinds ==
    { ContactRow("", SeenDec, NameAl, EmptyCell),
      ContactRow("Kid", EmptyCell, NameBo, EmptyCell),
      ContactRow("Kid", SeenDec, <<>>, EmptyCell),
      ContactRow("Kid", TextCell, NameBo, EmptyCell),
      ContactRow("Kid", SeenDec, NameAl, DateCell(DayOf(2024, 12, 6))),
      ContactRow("Kid", SeenNov, NameBo, TextCell),
      ContactRow("Kid", SeenDec, NameAl, EmptyCell),
      ContactRow("Kid", SeenNov, NameBo, EmptyCell),
      ContactRow("Kid", SeenJan, NameZed, EmptyCell),
      ContactRow("Kid", SeenDec, NameCy, EmptyCell) }

SheetContents == UNION {[1..n -> RowKinds] : n \in 0..MaxRows}

Truthy(cell) == cell.kind # "empty"

\* new Date(cell): a date cell gives its date, any other text is an invalid date
ValidDate(cell) == cell.kind = "date"
AsDate(cell) == Midnight(cell.day)

\* isPriorMonth comparing the months only
isPriorMonth_MonthOnly(dateSeen, now) == getMonth(dateSeen) < getMonth(now)

\* dateSeen.getMonth() < today.getMonth() || dateSeen.getFullYear() < today.getFullYear()
isPriorMonth(dateSeen, now) ==
    getMonth(dateSeen) < getMonth(now) \/ getFullYear(dateSeen) < getFullYear(now)

\* RowCheck without the test of line 105
RowCheck_NoDateTest(row, now, monday) ==
    IF row.childName = "" \/ ~Truthy(row.dateSeenRaw) \/ row.seenBy = <<>>
    THEN "skipMissing"
    ELSE IF Truthy(row.dateContactEntered) THEN "skipEntered"
    ELSE IF isPriorMonth(AsDate(row.dateSeenRaw), now) /\ ~monday THEN "skipPrior"
    ELSE "send"

\* RowCheck without the test of line 102
RowCheck_NoEnteredTest(row, now, monday) ==
    IF row.childName = "" \/ ~Truthy(row.dateSeenRaw) \/ row.seenBy = <<>>
    THEN "skipMissing"
    ELSE IF ~ValidDate(row.dateSeenRaw) THEN "skipBadDate"
    ELSE IF isPriorMonth(AsDate(row.dateSeenRaw), now) /\ ~monday THEN "skipPrior"
    ELSE "send"

\* The checks of the row loop before sendContactReminderRow is called
RowCheck(row, now, monday) ==
    IF row.childName = "" \/ ~Truthy(row.dateSeenRaw) \/ row.seenBy = <<>>
    THEN "skipMissing"
    ELSE IF Truthy(row.dateContactEntered) THEN "skipEntered"
    ELSE IF ~ValidDate(row.dateSeenRaw) THEN "skipBadDate"
    ELSE IF isPriorMonth(AsDate(row.dateSeenRaw), now) /\ ~monday THEN "skipPrior"
    ELSE "send"

\* The template chosen by sendContactReminderRow
Template(dateSeen, now) ==
    IF getMonth(dateSeen) < getMonth(now) THEN "postMonth"
    ELSE IF daysRemainingInMonth(now) <= 7 THEN "reprimanding"
    ELSE "standard"

\* Math.floor((today - dateSeen) / (1000 * 60 * 60 * 24))
daysSince(dateSeen, now) == FloorDays(Hours(now) - Hours(dateSeen))

\* PrepareReminder asking the roster before the main worker's name
PrepareReminder_LookupFirst(row, now) ==
    LET dateSeen == AsDate(row.dateSeenRaw)
        empInfo == getWorkerInfoByName(row.seenBy)
        extra == IF daysRemainingInMonth(now) <= 7 THEN <<SSM_EMAIL>> ELSE <<>>
    IN  IF empInfo.found
        THEN [kind |-> "mail", to |-> <<empInfo.workerEmail>>,
              bcc |-> <<empInfo.supervisorEmail>> \o extra,
              template |-> Template(dateSeen, now), greeting |-> empInfo.workerName,
              daysSinceSeen |-> daysSince(dateSeen, now)]
        ELSE IF MAIN_WORKER_NAME = row.seenBy
        THEN [kind |-> "mail", to |-> <<MAIN_WORKER_EMAIL>>,
              bcc |-> <<MAIN_SUPERVISOR_EMAIL>> \o extra,
              template |-> Template(dateSeen, now), greeting |-> MAIN_WORKER_NAME,
              daysSinceSeen |-> daysSince(dateSeen, now)]
        ELSE [kind |-> "miss", to |-> <<>>, bcc |-> <<>>, template |-> "none",
              greeting |-> <<>>, daysSinceSeen |-> 0]

\* The request sendContactReminderRow prepares for a row, or a lookup miss
PrepareReminder(row, now) ==
    LET dateSeen == AsDate(row.dateSeenRaw)
        empInfo == getWorkerInfoByName(row.seenBy)
        extra == IF daysRemainingInMonth(now) <= 7 THEN <<SSM_EMAIL>> ELSE <<>>
    IN  IF MAIN_WORKER_NAME = row.seenBy
        THEN [kind |-> "mail", to |-> <<MAIN_WORKER_EMAIL>>,
              bcc |-> <<MAIN_SUPERVISOR_EMAIL>> \o extra,
              template |-> Template(dateSeen, now), greeting |-> MAIN_WORKER_NAME,
              daysSinceSeen |-> daysSince(dateSeen, now)]
        ELSE IF empInfo.found
        THEN [kind |-> "mail", to |-> <<empInfo.workerEmail>>,
              bcc |-> <<empInfo.supervisorEmail>> \o extra,
              template |-> Template(dateSeen, now), greeting |-> empInfo.workerName,
              daysSinceSeen |-> daysSince(dateSeen, now)]
        ELSE [kind |-> "miss", to |-> <<>>, bcc |-> <<>>, template |-> "none",
              greeting |-> <<>>, daysSinceSeen |-> 0]

\* What the try block of sendContactReminderRow can do with a request: the mail
\* service refuses an empty recipient text and may fail otherwise; the cell write
\* that follows a delivered mail may fail too
SendOutcomes(req) ==
    IF \A k \in 1..Len(req.to) : req.to[k] = ""
    THEN {"sendFailed"}
    ELSE {"sent", "sendFailed", "writeFailed"}

LastReminderColumn == 6

-----------------------------------------------------------------------------
(* sendMonthlyContactReminders *)

FirstDay == DayOf(2024, 12, 23)
RunWeekdays == {1, 3}
Days == {d \in FirstDay..(FirstDay + NumDays - 1) : getDay(Midnight(d)) \in RunWeekdays}
RunHours == {9}

InitialTables ==
    { << <<"caseTrackerUrl", <<"u">> >> >>,
      << <<"caseTrackerUrl", <<"u">> >>,
         <<CompleteMonthsKey, <<"D", "e", "c", "e", "m", "b", "e", "r">> >> >>,
      << <<CompleteMonthsKey,
           <<" ", "j", "a", "n", "u", "a", "r", "y", ",", ",", " ",
             "d", "e", "c", "e", "m", "b", "e", "r">> >>,
         <<"caseTrackerUrl", <<"u">> >> >> }

isMonday == getDay(today) = 1
currentMonth == getMonth(today)

\* SheetDecision without the test of the completed months
SheetDecision_NoCompleteTest(sheetName, month, complete) ==
    LET monthName == monthMatch(sheetName)
    IN  IF monthName = <<>> THEN "nomatch"
        ELSE IF getMonthNumberFromName(monthName) > month THEN "future"
        ELSE "scan"

\* SheetDecision without the test of the future month
SheetDecision_NoFutureTest(sheetName, month, complete) ==
    LET monthName == monthMatch(sheetName)
    IN  IF monthName = <<>> THEN "nomatch"
        ELSE IF Includes(complete, monthName) THEN "complete"
        ELSE "scan"

\* The three tests at the head of the sheet loop's body
SheetDecision(sheetName, month, complete) ==
    LET monthName == monthMatch(sheetName)
    IN  IF monthName = <<>> THEN "nomatch"
        ELSE IF getMonthNumberFromName(monthName) > month THEN "future"
        ELSE IF Includes(complete, monthName) THEN "complete"
        ELSE "scan"

\* MarksComplete that never holds
MarksComplete_Never(monday, sent) == FALSE

\* MarksComplete without the test of the counter
MarksComplete_AnyCount(monday, sent) == monday

\* if (isMonday && remindersSent === 0)
MarksComplete(monday, sent) == monday /\ sent = 0

SheetLocalsReset ==
    /\ data' = <<>>
    /\ rowIdx' = 0
    /\ remindersSent' = 0
    /\ events' = <<>>
    /\ outbox' = <<>>
    /\ writes' = {}

ContactInit ==
    /\ clock \in Days
    /\ varTable \in InitialTables
    /\ pc = "idle"
    /\ today = Midnight(clock)
    /\ completeMonths = <<>>
    /\ startMonths = <<>>
    /\ sheetIdx = 0
    /\ decision = "none"
    /\ data = <<>>
    /\ rowIdx = 0
    /\ remindersSent = 0
    /\ events = <<>>
    /\ outbox = <<>>
    /\ writes = {}
    /\ nameArg = <<>>
    /\ nameResult = -1
    /\ invocation = 0
    /\ mailLog = {}
    /\ build = "GlobalVarsCache.js"
    /\ proc = <<>>
    /\ scriptCache = NoEntry
    /\ scriptProperties = NoEntry

\* Lines 12-36: the variables load, today, the parse of CONTACT_COMPLETE_MONTHS
StartRun ==
    /\ pc \in {"idle", "aborted", "loaded"}
    /\ \E hour \in RunHours :
           /\ today' = [day |-> clock, hour |-> hour]
           /\ completeMonths' = ParseCompleteMonths(LoadedValue(varTable, CompleteMonthsKey))
    /\ startMonths' = completeMonths'
    /\ pc' = "sheets"
    /\ sheetIdx' = 0
    /\ decision' = "none"
    /\ SheetLocalsReset
    /\ UNCHANGED <<clock, varTable, nameArg, nameResult,
                   invocation, mailLog, build, proc, scriptCache, scriptProperties>>

\* Lines 13-19: getGlobalVariables throws and the run returns
AbortRun ==
    /\ pc \in {"idle", "failed"}
    /\ pc' = "aborted"
    /\ sheetIdx' = 0
    /\ decision' = "none"
    /\ completeMonths' = <<>>
    /\ startMonths' = <<>>
    /\ SheetLocalsReset
    /\ UNCHANGED <<clock, varTable, today, nameArg, nameResult,
                   invocation, mailLog, build, proc, scriptCache, scriptProperties>>

\* Lines 38-55: the next sheet is passed over
SkipSheet ==
    /\ pc = "sheets"
    /\ sheetIdx < Len(Workbook)
    /\ SheetDecision(Workbook[sheetIdx + 1], currentMonth, completeMonths) # "scan"
    /\ sheetIdx' = sheetIdx + 1
    /\ decision' = SheetDecision(Workbook[sheetIdx + 1], currentMonth, completeMonths)
    /\ SheetLocalsReset
    /\ UNCHANGED <<clock, varTable, pc, today, completeMonths, startMonths, nameArg, nameResult,
                   invocation, mailLog, build, proc, scriptCache, scriptProperties>>

\* Lines 57-58: the next sheet is handed to processContactSheet
ScanSheet ==
    /\ pc = "sheets"
    /\ sheetIdx < Len(Workbook)
    /\ SheetDecision(Workbook[sheetIdx + 1], currentMonth, completeMonths) = "scan"
    /\ sheetIdx' = sheetIdx + 1
    /\ decision' = "scan"
    /\ pc' = "read"
    /\ SheetLocalsReset
    /\ UNCHANGED <<clock, varTable, today, completeMonths, startMonths, nameArg, nameResult,
                   invocation, mailLog, build, proc, scriptCache, scriptProperties>>

\* Lines 82-83: the sheet's values are read
ReadSheet ==
    /\ pc = "read"
    /\ \E content \in SheetContents : data' = content
    /\ pc' = "rows"
    /\ UNCHANGED <<clock, varTable, today, completeMonths, startMonths, sheetIdx, decision, rowIdx,
                   remindersSent, events, outbox, writes, nameArg, nameResult,
                   invocation, mailLog, build, proc, scriptCache, scriptProperties>>

\* Lines 86-120 with sendContactReminderRow (135-206): one pass of the row loop
ProcessRow ==
    /\ pc = "rows"
    /\ rowIdx < Len(data)
    /\ LET i == rowIdx + 1
           row == data[i]
           check == RowCheck(row, today, isMonday)
           req == PrepareReminder(row, today)
       IN  \/ /\ check # "send"
              /\ events' = Append(events, check)
              /\ UNCHANGED <<outbox, writes, remindersSent>>
           \/ /\ check = "send"
              /\ req.kind = "miss"
              /\ events' = Append(events, "lookupMiss")
              /\ UNCHANGED <<outbox, writes, remindersSent>>
           \/ /\ check = "send"
              /\ req.kind = "mail"
              /\ \E result \in SendOutcomes(req) :
                     /\ events' = Append(events, result)
                     /\ outbox' = Append(outbox,
                                     [row |-> i, to |-> req.to, bcc |-> req.bcc,
                                      template |-> req.template,
                                      greeting |-> req.greeting,
                                      daysSinceSeen |-> req.daysSinceSeen,
                                      delivered |-> result # "sendFailed"])
                     /\ writes' = IF result = "sent"
                                  THEN writes \cup {[row |-> i + 1,
                                                     column |-> LastReminderColumn,
                                                     value |-> formatDate(today)]}
                                  ELSE writes
                     /\ remindersSent' = IF result = "sent"
                                         THEN remindersSent + 1 ELSE remindersSent
    /\ rowIdx' = rowIdx + 1
    /\ UNCHANGED <<clock, varTable, pc, today, completeMonths, startMonths, sheetIdx, decision,
                   data, nameArg, nameResult,
                   invocation, mailLog, build, proc, scriptCache, scriptProperties>>

\* Lines 60-67: the scan returned; the month is marked complete or not
FinishSheet ==
    /\ pc = "rows"
    /\ rowIdx = Len(data)
    /\ pc' = "sheets"
    /\ IF MarksComplete(isMonday, remindersSent)
       THEN /\ completeMonths' = Append(completeMonths, monthMatch(Workbook[sheetIdx]))
            /\ varTable' = updateGlobalVariable(varTable, CompleteMonthsKey,
                                                join(completeMonths'))
            /\ decision' = "added"
       ELSE /\ decision' = "kept"
            /\ UNCHANGED <<completeMonths, varTable>>
    /\ UNCHANGED <<clock, today, startMonths, sheetIdx, data, rowIdx, remindersSent,
                   events, outbox, writes, nameArg, nameResult,
                   invocation, mailLog, build, proc, scriptCache, scriptProperties>>

\* Line 68: the sheet loop is over
FinishRun ==
    /\ pc = "sheets"
    /\ sheetIdx = Len(Workbook)
    /\ pc' = "idle"
    /\ UNCHANGED <<clock, varTable, today, completeMonths, startMonths, sheetIdx, decision, data,
                   rowIdx, remindersSent, events, outbox, writes, nameArg, nameResult,
                   invocation, mailLog, build, proc, scriptCache, scriptProperties>>

Next ==
    \/ StartRun
    \/ AbortRun
    \/ SkipSheet
    \/ ScanSheet
    \/ ReadSheet
    \/ ProcessRow
    \/ FinishSheet
    \/ FinishRun

Spec == ContactInit /\ [][Next]_vars

-----------------------------------------------------------------------------
(* sendSummaryReminders *)

SummaryRow(name, due, done) == [fullName |-> name, dueDateRaw |-> due, submitted |-> done]

DueA == DateCell(DayOf(2024, 3, 10))
DueB == DateCell(DayOf(2024, 3, 1))

SummaryRowKinds ==
    { SummaryRow(<<"D", "o", "e", ",", " ", "J", "o">>, DueA, FALSE),
      SummaryRow(<<"R", "o", "e", " ">>, DueB, FALSE),
      SummaryRow(<<"D", "o", "e", ",", " ", "J", "o">>, DueA, TRUE),
      SummaryRow(<<"D", "o", "e", ",", " ", "J", "o">>, EmptyCell, FALSE),
      SummaryRow(<<"D", "o", "e", ",", " ", "J", "o">>, TextCell, FALSE),
      SummaryRow(<<>>, DueA, FALSE),
      SummaryRow(<<" ", ",", "J", "o">>, DueB, FALSE) }

SummaryContents == UNION {[1..n -> SummaryRowKinds] : n \in 0..MaxSummaryRows}

SummaryFirstDay == DayOf(2024, 2, 27)
SummaryDays == SummaryFirstDay..(SummaryFirstDay + NumSummaryDays - 1)
SummaryHours == {0, 9, 15}

\* Lines 33-44: the last name parsed from "LastName, FirstName"
lastNameOf(fullName) ==
    IF fullName = <<>> THEN <<>>
    ELSE IF \E k \in 1..Len(fullName) : fullName[k] = ","
    THEN trim(split(fullName)[1])
    ELSE trim(fullName)

\* Line 51: submitted || !dueDate || !lastName
SummarySkipped(row) ==
    row.submitted \/ ~Truthy(row.dueDateRaw) \/ lastNameOf(row.fullName) = <<>>

\* daysLateOf rounding up instead of down
daysLateOf_Ceil(now, dueDate) == CeilDays(Hours(now) - Hours(dueDate))

\* Line 57: Math.floor((today - dueDate) / (1000 * 60 * 60 * 24))
daysLateOf(now, dueDate) == FloorDays(Hours(now) - Hours(dueDate))

\* Lines 63-64: firstReminderDate is dueDate with its day of month set one back
firstReminderDateOf(dueDate) == [day |-> dueDate.day - 1, hour |-> dueDate.hour]

\* SameDate comparing the time of day too
SameDate_SameHour(a, b) == a.day = b.day /\ a.hour = b.hour

\* a.toDateString() === b.toDateString()
SameDate(a, b) == a.day = b.day

\* Lines 81-124: the ordered tier tests; an invalid due date passes none of them
SummaryTier(row, now) ==
    IF ~ValidDate(row.dueDateRaw) THEN "none"
    ELSE LET dueDate == AsDate(row.dueDateRaw)
             daysLate == daysLateOf(now, dueDate)
         IN  IF SameDate(now, firstReminderDateOf(dueDate)) THEN "preDue"
             ELSE IF SameDate(now, dueDate) THEN "dueToday"
             ELSE IF daysLate > 0 /\ daysLate < 7 THEN "minorOverdue"
             ELSE IF daysLate >= 7 THEN "severeOverdue"
             ELSE "none"

\* TierRecipients leaving the supervisor out of the 1-6 days tier
TierRecipients_NoSupervisor(tier) ==
    CASE tier = "preDue" -> <<MAIN_WORKER_EMAIL>>
      [] tier = "dueToday" -> <<MAIN_WORKER_EMAIL>>
      [] tier = "minorOverdue" -> <<MAIN_WORKER_EMAIL>>
      [] tier = "severeOverdue" -> <<MAIN_WORKER_EMAIL, MAIN_SUPERVISOR_EMAIL, SSM_EMAIL>>
      [] OTHER -> <<>>

\* TierRecipients dropping the supervisor once the manager is added
TierRecipients_ManagerReplacesSupervisor(tier) ==
    CASE tier = "preDue" -> <<MAIN_WORKER_EMAIL>>
      [] tier = "dueToday" -> <<MAIN_WORKER_EMAIL>>
      [] tier = "minorOverdue" -> <<MAIN_WORKER_EMAIL, MAIN_SUPERVISOR_EMAIL>>
      [] tier = "severeOverdue" -> <<MAIN_WORKER_EMAIL, SSM_EMAIL>>
      [] OTHER -> <<>>

\* The recipients array built for a tier
TierRecipients(tier) ==
    CASE tier = "preDue" -> <<MAIN_WORKER_EMAIL>>
      [] tier = "dueToday" -> <<MAIN_WORKER_EMAIL>>
      [] tier = "minorOverdue" -> <<MAIN_WORKER_EMAIL, MAIN_SUPERVISOR_EMAIL>>
      [] tier = "severeOverdue" -> <<MAIN_WORKER_EMAIL, MAIN_SUPERVISOR_EMAIL, SSM_EMAIL>>
      [] OTHER -> <<>>

\* recipients.filter(email => email && email.trim() !== "")
NonBlank(list) == SelectSeq(list, LAMBDA a : a # "")

\* Lines 136-140: the request handed to sendEmailWithHtml for a row on a day
MailRequest(day, row, tier) ==
    [day |-> day, fullName |-> row.fullName, dueDateRaw |-> row.dueDateRaw,
     to |-> NonBlank(TierRecipients(tier))]

SummaryInit ==
    /\ clock \in SummaryDays
    /\ varTable = <<>>
    /\ pc = "idle"
    /\ today = Midnight(clock)
    /\ completeMonths = <<>>
    /\ startMonths = <<>>
    /\ sheetIdx = 0
    /\ decision = "none"
    /\ data = <<>>
    /\ rowIdx = 0
    /\ remindersSent = 0
    /\ events = <<>>
    /\ outbox = <<>>
    /\ writes = {}
    /\ nameArg = <<>>
    /\ nameResult = -1
    /\ invocation = 0
    /\ mailLog = {}
    /\ build = "GlobalVarsCache.js"
    /\ proc = <<>>
    /\ scriptCache = NoEntry
    /\ scriptProperties = NoEntry

\* Lines 10-12 and 18: the variables load and today
SummaryStart ==
    /\ pc = "idle"
    /\ invocation < MaxInvocations
    /\ invocation' = invocation + 1
    /\ \E hour \in SummaryHours : today' = [day |-> clock, hour |-> hour]
    /\ pc' = "summaryRead"
    /\ data' = <<>>
    /\ rowIdx' = 0
    /\ events' = <<>>
    /\ outbox' = <<>>
    /\ UNCHANGED <<clock, varTable, completeMonths, startMonths, sheetIdx, decision, remindersSent,
                   writes, nameArg, nameResult, mailLog, build, proc, scriptCache, scriptProperties>>

\* Lines 15-17: the first sheet's values are read
SummaryRead ==
    /\ pc = "summaryRead"
    /\ \E content \in SummaryContents : data' = content
    /\ pc' = "summaryRows"
    /\ UNCHANGED <<clock, varTable, today, completeMonths, startMonths, sheetIdx, decision, rowIdx,
                   remindersSent, events, outbox, writes, nameArg, nameResult,
                   invocation, mailLog, build, proc, scriptCache, scriptProperties>>

\* Lines 23-145: one pass of the row loop
SummaryProcessRow ==
    /\ pc = "summaryRows"
    /\ rowIdx < Len(data)
    /\ LET i == rowIdx + 1
           row == data[i]
           tier == SummaryTier(row, today)
       IN  \/ /\ SummarySkipped(row)
              /\ events' = Append(events, "skipped")
              /\ UNCHANGED <<outbox, mailLog>>
           \/ /\ ~SummarySkipped(row)
              /\ TierRecipients(tier) = <<>>
              /\ events' = Append(events, "none")
              /\ UNCHANGED <<outbox, mailLog>>
           \/ /\ ~SummarySkipped(row)
              /\ TierRecipients(tier) # <<>>
              /\ events' = Append(events, tier)
              /\ \E ok \in BOOLEAN :
                     outbox' = Append(outbox,
                                 [row |-> i, to |-> NonBlank(TierRecipients(tier)),
                                  tier |-> tier, lastName |-> lastNameOf(row.fullName),
                                  delivered |-> ok])
              /\ mailLog' = mailLog \cup {MailRequest(today.day, row, tier)}
    /\ rowIdx' = rowIdx + 1
    /\ UNCHANGED <<clock, varTable, pc, today, completeMonths, startMonths, sheetIdx, decision, data,
                   remindersSent, writes, nameArg, nameResult,
                   invocation, build, proc, scriptCache, scriptProperties>>

\* Line 146: the row loop is over
SummaryFinish ==
    /\ pc = "summaryRows"
    /\ rowIdx = Len(data)
    /\ pc' = "idle"
    /\ UNCHANGED <<clock, varTable, today, completeMonths, startMonths, sheetIdx, decision, data,
                   rowIdx, remindersSent, events, outbox, writes, nameArg, nameResult,
                   invocation, mailLog, build, proc, scriptCache, scriptProperties>>

SummaryNext == SummaryStart \/ SummaryRead \/ SummaryProcessRow \/ SummaryFinish

SpecSummary == SummaryInit /\ [][SummaryNext]_vars

-----------------------------------------------------------------------------
(* The summary scan over consecutive days *)

\* Line 18: the next daily run reads a new Date() one day on; the log keeps the
\* requests of the day that ends
NextDay ==
    /\ pc = "idle"
    /\ invocation >= 1
    /\ clock + 1 \in SummaryDays
    /\ clock' = clock + 1
    /\ invocation' = 0
    /\ mailLog' = {m \in mailLog : m.day = clock}
    /\ UNCHANGED <<varTable, pc, today, completeMonths, startMonths, sheetIdx, decision, data,
                   rowIdx, remindersSent, events, outbox, writes, nameArg, nameResult,
                   build, proc, scriptCache, scriptProperties>>

EscalationNext == SummaryNext \/ NextDay

SpecEscalation == SummaryInit /\ [][EscalationNext]_vars

-----------------------------------------------------------------------------
(* Either engine: a day runs the contact scan or the summary scan *)

ScansInit == ContactInit \/ SummaryInit

ScansNext ==
    \/ clock \in Days /\ Next
    \/ clock \in SummaryDays /\ SummaryNext

SpecScans == ScansInit /\ [][ScansNext]_vars

-----------------------------------------------------------------------------
(* getMonthNumberFromName on its own *)

ToUpperChar(c) ==
    IF c \in Range(LowerLetters)
    THEN UpperLetters[CHOOSE k \in 1..Len(LowerLetters) : LowerLetters[k] = c]
    ELSE c

\* The spellings of a name: as written, lower case, upper case, case inverted
Spelling(s, style) ==
    CASE style = "asWritten" -> s
      [] style = "lower" -> [k \in 1..Len(s) |-> ToLowerChar(s[k])]
      [] style = "upper" -> [k \in 1..Len(s) |-> ToUpperChar(s[k])]
      [] style = "inverted" ->
            [k \in 1..Len(s) |-> IF s[k] \in UpperSet THEN ToLowerChar(s[k])
                                 ELSE ToUpperChar(s[k])]

Styles == {"asWritten", "lower", "upper", "inverted"}

MonthSpellings == {Spelling(months[k], style) : k \in 1..Len(months), style \in Styles}

\* Names that are no month: a month cut short or lengthened, and other words
OtherNames ==
    {SubSeq(months[k], 1, Len(months[k]) - n) : k \in 1..Len(months), n \in 1..MaxCut}
    \cup {Spelling(months[k], style) \o <<"s">> : k \in 1..Len(months), style \in Styles}
    \cup { <<"E", "m", "e", "r", "g", "e", "n", "c", "y">>, <<"O", "l", "d">> }

NameInputs == MonthSpellings \cup OtherNames

MonthInit ==
    /\ nameArg \in NameInputs
    /\ nameResult = -1
    /\ invocation = 0
    /\ mailLog = {}
    /\ build = "GlobalVarsCache.js"
    /\ proc = <<>>
    /\ scriptCache = NoEntry
    /\ scriptProperties = NoEntry
    /\ pc = "ask"
    /\ clock = FirstDay
    /\ varTable = <<>>
    /\ today = Midnight(FirstDay)
    /\ completeMonths = <<>>
    /\ startMonths = <<>>
    /\ sheetIdx = 0
    /\ decision = "none"
    /\ data = <<>>
    /\ rowIdx = 0
    /\ remindersSent = 0
    /\ events = <<>>
    /\ outbox = <<>>
    /\ writes = {}

AskMonthNumber ==
    /\ pc = "ask"
    /\ nameResult' = getMonthNumberFromName(nameArg)
    /\ pc' = "answered"
    /\ UNCHANGED <<clock, varTable, today, completeMonths, startMonths, sheetIdx, decision, data,
                   rowIdx, remindersSent, events, outbox, writes, nameArg, invocation, mailLog, build, proc, scriptCache, scriptProperties>>

MonthNext == AskMonthNumber

SpecMonth == MonthInit /\ [][MonthNext]_vars

-----------------------------------------------------------------------------
(* The configuration resolver: script cache, script properties, Variables tab. *)
(* GlobalVarsCache.js and the utilities file (part_001) both define            *)
(* ensureGlobalVariables, getGlobalVariables and refreshGlobalVariablesCache;  *)
(* the project runs the definitions of the file that is loaded last (build).   *)
(* AUTOMATION_INFO_SHEET_URL is set, so ensureAutomationInfoSheetURL returns   *)
(* at once.                                                                    *)

Builds == {"GlobalVarsCache.js", "part_001"}

\* Variables tabs: all six required keys; five of them and a blank SSM_EMAIL;
\* no row with both a key and a value
ConfigTables ==
    { << <<"MAIN_WORKER_EMAIL", <<"a">> >>, <<"MAIN_WORKER_NAME", <<" ", "a">> >>,
         <<"MAIN_SUPERVISOR_EMAIL", <<"a">> >>, <<"MAIN_SUPERVISOR_NAME", <<"a">> >>,
         <<"SSM_NAME", <<"a">> >>, <<"SSM_EMAIL", <<"a">> >> >>,
      << <<"MAIN_WORKER_EMAIL", <<"b">> >>, <<"MAIN_WORKER_NAME", <<"b">> >>,
         <<"MAIN_SUPERVISOR_EMAIL", <<"b">> >>, <<"MAIN_SUPERVISOR_NAME", <<"b">> >>,
         <<"SSM_NAME", <<"b">> >>, <<"SSM_EMAIL", <<" ">> >> >>,
      << <<"SSM_EMAIL", <<" ">> >>, <<"", <<"a">> >> >> }

\* What a cache entry or a property can hold: nothing, or a mapping that an
\* earlier refresh built from a Variables tab
StoredEntries ==
    {NoEntry} \cup {EntryOf(loadAutomationInfoSheet(t)) :
                       t \in {u \in ConfigTables : loadAutomationInfoSheet(u) # <<>>}}

\* The engines' variables, which the resolver leaves alone
engineVars ==
    <<clock, pc, today, completeMonths, startMonths, sheetIdx, decision, data, rowIdx,
      remindersSent, events, outbox, writes, nameArg, nameResult, invocation, mailLog>>

EngineAtRest ==
    /\ clock = FirstDay
    /\ pc = "idle"
    /\ today = Midnight(FirstDay)
    /\ completeMonths = <<>>
    /\ startMonths = <<>>
    /\ sheetIdx = 0
    /\ decision = "none"
    /\ data = <<>>
    /\ rowIdx = 0
    /\ remindersSent = 0
    /\ events = <<>>
    /\ outbox = <<>>
    /\ writes = {}
    /\ nameArg = <<>>
    /\ nameResult = -1
    /\ invocation = 0
    /\ mailLog = {}

\* An execution that runs nothing
IdleProc ==
    [op |-> "none", pc |-> "idle", keys |-> <<>>, pass |-> "first",
     vars |-> <<>>, loaded |-> <<>>, result |-> <<>>, log |-> <<>>]

Logged(r, what) == [r EXCEPT !.log = Append(r.log, what)]

\* Where a mapping goes that the tier walk or the refresh ends on:
\* refreshGlobalVariablesCache returns it; ensureGlobalVariables of part_001
\* (lines 72-74, 84-86, 94-96) returns filterVars of it; ensureGlobalVariables of
\* GlobalVarsCache.js (lines 33, 42) goes on to test it; getGlobalVariables of
\* GlobalVarsCache.js (lines 122, 136, 143) returns it
Deliver(r, value) ==
    IF r.op = "refreshGlobalVariablesCache"
    THEN [r EXCEPT !.pc = "returned", !.result = value]
    ELSE IF build = "part_001"
    THEN [r EXCEPT !.pc = "returned", !.result = filterVars(value, r.keys)]
    ELSE IF r.op = "ensureGlobalVariables"
    THEN [r EXCEPT !.pc = "check", !.vars = value]
    ELSE [r EXCEPT !.pc = "returned", !.result = value]

ConfigInit ==
    /\ build \in Builds
    /\ proc = <<IdleProc>>
    /\ varTable \in ConfigTables
    /\ scriptCache \in StoredEntries
    /\ scriptProperties \in StoredEntries
    /\ EngineAtRest

\* getGlobalVariables(false); in part_001 it is ensureGlobalVariables(REQUIRED_KEYS)
CallGetGlobalVariables(p) ==
    /\ proc[p].pc \in {"idle", "returned", "threw"}
    /\ proc' = [proc EXCEPT ![p] =
                   [IdleProc EXCEPT !.op = "getGlobalVariables", !.pc = "cacheGet",
                                    !.keys = IF build = "part_001" THEN REQUIRED_KEYS
                                             ELSE <<>>]]
    /\ UNCHANGED <<build, scriptCache, scriptProperties, varTable, engineVars>>

\* ensureGlobalVariables(REQUIRED_KEYS)
CallEnsureGlobalVariables(p) ==
    /\ proc[p].pc \in {"idle", "returned", "threw"}
    /\ proc' = [proc EXCEPT ![p] =
                   [IdleProc EXCEPT !.op = "ensureGlobalVariables", !.pc = "cacheGet",
                                    !.keys = REQUIRED_KEYS]]
    /\ UNCHANGED <<build, scriptCache, scriptProperties, varTable, engineVars>>

\* refreshGlobalVariablesCache(), as the five-hour trigger calls it
CallRefresh(p) ==
    /\ proc[p].pc \in {"idle", "returned", "threw"}
    /\ proc' = [proc EXCEPT ![p] =
                   [IdleProc EXCEPT !.op = "refreshGlobalVariablesCache", !.pc = "load",
                                    !.pass = "forced"]]
    /\ UNCHANGED <<build, scriptCache, scriptProperties, varTable, engineVars>>

\* cache.get("globalVariables") and the return of the parsed text on a hit
CacheGet(p) ==
    /\ proc[p].pc = "cacheGet"
    /\ LET r == Logged(proc[p], "cache.get")
       IN  proc' = [proc EXCEPT ![p] =
                       IF scriptCache.present
                       THEN Deliver(r, JSONparse(scriptCache.json))
                       ELSE [r EXCEPT !.pc = "propsGet"]]
    /\ UNCHANGED <<build, scriptCache, scriptProperties, varTable, engineVars>>

\* PropsGet passing over the stored property and going to the sheet
PropsGet_SkipsDurable(p) ==
    /\ proc[p].pc = "propsGet"
    /\ proc' = [proc EXCEPT ![p] = [Logged(proc[p], "props.get") EXCEPT !.pc = "load"]]
    /\ UNCHANGED <<build, scriptCache, scriptProperties, varTable, engineVars>>

\* loadVarsFromProperties() and the test propsVars && Object.keys(propsVars).length > 0
PropsGet(p) ==
    /\ proc[p].pc = "propsGet"
    /\ LET r == Logged(proc[p], "props.get")
           propsVars == JSONparse(scriptProperties.json)
       IN  proc' = [proc EXCEPT ![p] =
                       IF scriptProperties.present /\ Len(propsVars) > 0
                       THEN [r EXCEPT !.pc = "cacheFill", !.vars = propsVars]
                       ELSE [r EXCEPT !.pc = "load"]]
    /\ UNCHANGED <<build, scriptCache, scriptProperties, varTable, engineVars>>

\* cache.put("globalVariables", JSON.stringify(propsVars), 18000) outside any try:
\* a put that throws ends the call with the exception
CacheFill(p) ==
    /\ proc[p].pc = "cacheFill"
    /\ \E ok \in BOOLEAN :
           IF ok
           THEN /\ scriptCache' = EntryOf(proc[p].vars)
                /\ proc' = [proc EXCEPT ![p] =
                               Deliver(Logged(proc[p], "cache.put"), proc[p].vars)]
           ELSE /\ UNCHANGED scriptCache
                /\ proc' = [proc EXCEPT ![p] =
                               [Logged(proc[p], "cache.put failed") EXCEPT !.pc = "threw"]]
    /\ UNCHANGED <<build, scriptProperties, varTable, engineVars>>

\* refreshGlobalVariablesCache: loadAutomationInfoSheet() and the test of an empty
\* result; a throw is caught and {} is returned
Load(p) ==
    /\ proc[p].pc = "load"
    /\ \E ok \in BOOLEAN :
           LET fresh == loadAutomationInfoSheet(varTable)
           IN  proc' = [proc EXCEPT ![p] =
                           IF ok /\ fresh # <<>>
                           THEN [Logged(proc[p], "sheet.read") EXCEPT
                                    !.pc = "cachePut", !.vars = fresh, !.loaded = fresh]
                           ELSE Deliver(Logged(proc[p], "sheet.read failed"), <<>>)]
    /\ UNCHANGED <<build, scriptCache, scriptProperties, varTable, engineVars>>

\* CachePut assigning the members it read into the mapping the cache holds
CachePut_MergesIntoEntry(p) ==
    /\ proc[p].pc = "cachePut"
    /\ scriptCache' = EntryOf(LoadRows(proc[p].vars, JSONparse(scriptCache.json)))
    /\ proc' = [proc EXCEPT ![p] = [Logged(proc[p], "cache.put") EXCEPT !.pc = "propsSet"]]
    /\ UNCHANGED <<build, scriptProperties, varTable, engineVars>>

\* CachePut leaving an entry that the cache already holds
CachePut_KeepsEntry(p) ==
    /\ proc[p].pc = "cachePut"
    /\ scriptCache' = IF scriptCache.present THEN scriptCache ELSE EntryOf(proc[p].vars)
    /\ proc' = [proc EXCEPT ![p] = [Logged(proc[p], "cache.put") EXCEPT !.pc = "propsSet"]]
    /\ UNCHANGED <<build, scriptProperties, varTable, engineVars>>

\* refreshGlobalVariablesCache: CacheService.getScriptCache().put(...) inside the try
CachePut(p) ==
    /\ proc[p].pc = "cachePut"
    /\ \E ok \in BOOLEAN :
           IF ok
           THEN /\ scriptCache' = EntryOf(proc[p].vars)
                /\ proc' = [proc EXCEPT ![p] =
                               [Logged(proc[p], "cache.put") EXCEPT !.pc = "propsSet"]]
           ELSE /\ UNCHANGED scriptCache
                /\ proc' = [proc EXCEPT ![p] =
                               Deliver(Logged(proc[p], "cache.put failed"), <<>>)]
    /\ UNCHANGED <<build, scriptProperties, varTable, engineVars>>

\* PropsSet returning the mapping without storing it
PropsSet_SkipsWrite(p) ==
    /\ proc[p].pc = "propsSet"
    /\ proc' = [proc EXCEPT ![p] = Deliver(Logged(proc[p], "props.set"), proc[p].vars)]
    /\ UNCHANGED <<build, scriptCache, scriptProperties, varTable, engineVars>>

\* refreshGlobalVariablesCache: setProperty("globalVariablesJSON", ...) inside the
\* try, and return vars
PropsSet(p) ==
    /\ proc[p].pc = "propsSet"
    /\ \E ok \in BOOLEAN :
           IF ok
           THEN /\ scriptProperties' = EntryOf(proc[p].vars)
                /\ proc' = [proc EXCEPT ![p] =
                               Deliver(Logged(proc[p], "props.set"), proc[p].vars)]
           ELSE /\ UNCHANGED scriptProperties
                /\ proc' = [proc EXCEPT ![p] =
                               Deliver(Logged(proc[p], "props.set failed"), <<>>)]
    /\ UNCHANGED <<build, scriptCache, varTable, engineVars>>

\* ensureGlobalVariables of GlobalVarsCache.js, lines 36-53: the test of the
\* required keys, the refresh when one is missing, the throw when one still is
CheckRequired(p) ==
    /\ proc[p].pc = "check"
    /\ LET r == proc[p]
           missing == missingKeys(r.vars, r.keys)
       IN  proc' = [proc EXCEPT ![p] =
                       IF r.keys = <<>> \/ missing = <<>>
                       THEN [r EXCEPT !.pc = "returned", !.result = r.vars]
                       ELSE IF r.pass = "first"
                       THEN [r EXCEPT !.pc = "load", !.pass = "forced"]
                       ELSE [r EXCEPT !.pc = "threw"]]
    /\ UNCHANGED <<build, scriptCache, scriptProperties, varTable, engineVars>>

\* Someone edits the Variables tab
EditTable ==
    /\ \E t \in ConfigTables \ {varTable} : varTable' = t
    /\ UNCHANGED <<build, proc, scriptCache, scriptProperties, engineVars>>

\* The cache entry reaches its time to live of 18000 seconds; an execution lasts
\* minutes, so this happens between executions
CacheExpire ==
    /\ scriptCache.present
    /\ \A p \in DOMAIN proc : proc[p].pc \in {"idle", "returned", "threw"}
    /\ scriptCache' = NoEntry
    /\ UNCHANGED <<build, proc, scriptProperties, varTable, engineVars>>

ConfigNext ==
    \/ \E p \in DOMAIN proc : CallGetGlobalVariables(p)
    \/ \E p \in DOMAIN proc : CallEnsureGlobalVariables(p)
    \/ \E p \in DOMAIN proc : CallRefresh(p)
    \/ \E p \in DOMAIN proc : CacheGet(p)
    \/ \E p \in DOMAIN proc : PropsGet(p)
    \/ \E p \in DOMAIN proc : CacheFill(p)
    \/ \E p \in DOMAIN proc : Load(p)
    \/ \E p \in DOMAIN proc : CachePut(p)
    \/ \E p \in DOMAIN proc : PropsSet(p)
    \/ \E p \in DOMAIN proc : CheckRequired(p)
    \/ EditTable
    \/ CacheExpire

SpecConfig == ConfigInit /\ [][ConfigNext]_vars

-----------------------------------------------------------------------------
(* Two executions at once: the five-hour trigger and a user's call, or two users *)

RaceInit ==
    /\ build \in Builds
    /\ proc = <<IdleProc, IdleProc>>
    /\ varTable \in ConfigTables
    /\ scriptCache \in StoredEntries
    /\ scriptProperties \in StoredEntries
    /\ EngineAtRest

SpecRace == RaceInit /\ [][ConfigNext]_vars

-----------------------------------------------------------------------------
(* The marker rows of the Variables tab.  A row here has three cells: key, *)
(* value, note.  varTable holds the rows below the header, which the loops *)
(* of both functions (let i = 1) skip. *)

UrlMarker == "automationInfoSheetURL"
SheetsMarker == "contactSheets"

\* The note of updateAutomationInfoSheetBackupRow, kept as one piece of text
AutofillNote == <<"This is autofilled, do not type in this box">>

\* The rows of the other keys
BaseRows == << <<"MAIN_WORKER_EMAIL", <<"a">>, <<>> >>, <<"SSM_EMAIL", <<"a">>, <<>> >> >>

\* A tab on which each marker row has been written once, or not yet
UpdateTables ==
    { BaseRows \o urlRow \o sheetsRow :
        urlRow \in {<<>>, << <<UrlMarker, <<"u">>, AutofillNote>> >>},
        sheetsRow \in {<<>>, << <<SheetsMarker, <<"[", "]">>, <<>> >> >>} }

\* The arguments: a url; the names of the contact sheets
Urls == {<<"u">>, <<"v">>}
ContactSheetLists == {<<>>, <<"x">>}

\* JSON.stringify of an array of one-character names
RECURSIVE StringifyItems(_)
StringifyItems(list) ==
    IF list = <<>> THEN <<>>
    ELSE <<"\"", Head(list), "\"">> \o
         (IF Len(list) > 1 THEN <<",">> ELSE <<>>) \o StringifyItems(Tail(list))

JSONstringifyList(list) == <<"[">> \o StringifyItems(list) \o <<"]">>

\* The search loop over the snapshot: the row of the first cell equal to the
\* marker, or 0 (foundRow === -1; the loop of part_000 falling through)
FoundRow(values, marker) ==
    LET hits == {i \in DOMAIN values : values[i][1] = marker}
    IN  IF hits = {} THEN 0 ELSE CHOOSE i \in hits : \A j \in hits : i <= j

\* The catch of either function: log and return
Caught(r, what) == [Logged(r, what) EXCEPT !.pc = "returned"]

UpdateInit ==
    /\ build \in Builds
    /\ proc = <<IdleProc, IdleProc, IdleProc>>
    /\ varTable \in UpdateTables
    /\ scriptCache = NoEntry
    /\ scriptProperties = NoEntry
    /\ EngineAtRest

\* updateAutomationInfoSheetBackupRow(url)
CallUpdateUrl(p) ==
    /\ proc[p].pc = "idle"
    /\ \E url \in Urls :
           proc' = [proc EXCEPT ![p] =
                       [IdleProc EXCEPT !.op = "updateAutomationInfoSheetBackupRow",
                                        !.pc = "getValues", !.keys = <<UrlMarker>>,
                                        !.loaded = url]]
    /\ UNCHANGED <<build, scriptCache, scriptProperties, varTable, engineVars>>

\* updateContactSheetsBackupRow(contactSheets)
CallUpdateSheets(p) ==
    /\ proc[p].pc = "idle"
    /\ \E list \in ContactSheetLists :
           proc' = [proc EXCEPT ![p] =
                       [IdleProc EXCEPT !.op = "updateContactSheetsBackupRow",
                                        !.pc = "getValues", !.keys = <<SheetsMarker>>,
                                        !.loaded = JSONstringifyList(list)]]
    /\ UNCHANGED <<build, scriptCache, scriptProperties, varTable, engineVars>>

\* const values = sheet.getDataRange().getValues(), and the search loop over it
GetValues(p) ==
    /\ proc[p].pc = "getValues"
    /\ \E ok \in BOOLEAN :
           proc' = [proc EXCEPT ![p] =
                       IF ~ok THEN Caught(proc[p], "getValues failed")
                       ELSE [Logged(proc[p], "getValues") EXCEPT
                                !.vars = varTable,
                                !.pc = IF FoundRow(varTable, proc[p].keys[1]) = 0
                                       THEN "appendRow" ELSE "setValue"]]
    /\ UNCHANGED <<build, scriptCache, scriptProperties, varTable, engineVars>>

\* sheet.appendRow([...]) when the snapshot has no row of the marker
AppendRow(p) ==
    /\ proc[p].pc = "appendRow"
    /\ \E ok \in BOOLEAN :
           IF ok
           THEN /\ varTable' = Append(varTable,
                       <<proc[p].keys[1], proc[p].loaded,
                         IF proc[p].keys[1] = UrlMarker THEN AutofillNote ELSE <<>> >>)
                /\ proc' = [proc EXCEPT ![p] = Caught(proc[p], "appendRow")]
           ELSE /\ UNCHANGED varTable
                /\ proc' = [proc EXCEPT ![p] = Caught(proc[p], "appendRow failed")]
    /\ UNCHANGED <<build, scriptCache, scriptProperties, engineVars>>

\* sheet.getRange(row, 2).setValue(...) on the row found in the snapshot
SetValue(p) ==
    /\ proc[p].pc = "setValue"
    /\ \E ok \in BOOLEAN :
           LET row == FoundRow(proc[p].vars, proc[p].keys[1])
           IN  IF ok
               THEN /\ varTable' = [varTable EXCEPT ![row][2] = proc[p].loaded]
                    /\ proc' = [proc EXCEPT ![p] =
                                   IF proc[p].keys[1] = UrlMarker
                                   THEN [Logged(proc[p], "setValue") EXCEPT !.pc = "setNote"]
                                   ELSE Caught(proc[p], "setValue")]
               ELSE /\ UNCHANGED varTable
                    /\ proc' = [proc EXCEPT ![p] = Caught(proc[p], "setValue failed")]
    /\ UNCHANGED <<build, scriptCache, scriptProperties, engineVars>>

\* updateAutomationInfoSheetBackupRow: sheet.getRange(foundRow, 3).setValue(note)
SetNote(p) ==
    /\ proc[p].pc = "setNote"
    /\ \E ok \in BOOLEAN :
           LET row == FoundRow(proc[p].vars, proc[p].keys[1])
           IN  IF ok
               THEN /\ varTable' = [varTable EXCEPT ![row][3] = AutofillNote]
                    /\ proc' = [proc EXCEPT ![p] = Caught(proc[p], "setNote")]
               ELSE /\ UNCHANGED varTable
                    /\ proc' = [proc EXCEPT ![p] = Caught(proc[p], "setNote failed")]
    /\ UNCHANGED <<build, scriptCache, scriptProperties, engineVars>>

\* The executions that update
Updaters == {1, 2}

\* Executions 1 and 2 update, once each; execution 3 is the scheduled refresh
UpdateNext ==
    \/ \E p \in Updaters : CallUpdateUrl(p)
    \/ \E p \in Updaters : CallUpdateSheets(p)
    \/ \E p \in Updaters : GetValues(p)
    \/ \E p \in Updaters : AppendRow(p)
    \/ \E p \in Updaters : SetValue(p)
    \/ \E p \in Updaters : SetNote(p)
    \/ proc[3].pc = "idle" /\ CallRefresh(3)
    \/ Load(3)
    \/ CachePut(3)
    \/ PropsSet(3)

SpecUpdates == UpdateInit /\ [][UpdateNext]_vars

-----------------------------------------------------------------------------
(* The update of CONTACT_COMPLETE_MONTHS followed by resolutions.  Execution 1 *)
(* updates, execution 2 resolves, one after the other. *)

\* The labels of two months, one character each
JanuaryLabel == <<"J">>
FebruaryLabel == <<"F">>

\* completeMonths.join(", ") after the push of line 62
JoinedLabels == {join(<<JanuaryLabel>>), join(<<JanuaryLabel, FebruaryLabel>>)}

\* A Variables tab without the row of CONTACT_COMPLETE_MONTHS, and one with it
RoundTripTables ==
    LET base == << <<"MAIN_WORKER_EMAIL", <<"a">> >>, <<"MAIN_WORKER_NAME", <<" ", "a">> >>,
                   <<"MAIN_SUPERVISOR_EMAIL", <<"a">> >>, <<"MAIN_SUPERVISOR_NAME", <<"a">> >>,
                   <<"SSM_NAME", <<"a">> >>, <<"SSM_EMAIL", <<"a">> >> >>
    IN  {base, Append(base, <<CompleteMonthsKey, <<"D">> >>)}

AtRest(p) == proc[p].pc \in {"idle", "returned", "threw"}

RoundTripInit ==
    /\ build \in Builds
    /\ proc = <<IdleProc, IdleProc>>
    /\ varTable \in RoundTripTables
    /\ scriptCache \in {NoEntry, EntryOf(loadAutomationInfoSheet(varTable))}
    /\ scriptProperties \in {NoEntry, EntryOf(loadAutomationInfoSheet(varTable))}
    /\ EngineAtRest

\* updateGlobalVariable("CONTACT_COMPLETE_MONTHS", text): the row is overwritten or
\* appended, and the copies are refreshed by refreshGlobalVariablesCache
UpdateValue(p) ==
    /\ AtRest(p)
    /\ \E text \in JoinedLabels :
           varTable' = updateGlobalVariable(varTable, CompleteMonthsKey, text)
    /\ proc' = [proc EXCEPT ![p] =
                   [IdleProc EXCEPT !.op = "updateGlobalVariable", !.pc = "load",
                                    !.pass = "forced", !.log = <<"updateValue">>]]
    /\ UNCHANGED <<build, scriptCache, scriptProperties, engineVars>>

\* ensureGlobalVariables(["CONTACT_COMPLETE_MONTHS"])
CallEnsureCompleteMonths(p) ==
    /\ AtRest(p)
    /\ proc' = [proc EXCEPT ![p] =
                   [IdleProc EXCEPT !.op = "ensureGlobalVariables", !.pc = "cacheGet",
                                    !.keys = <<CompleteMonthsKey>>]]
    /\ UNCHANGED <<build, scriptCache, scriptProperties, varTable, engineVars>>

RoundTripNext ==
    \/ AtRest(2) /\ UpdateValue(1)
    \/ Load(1)
    \/ CachePut(1)
    \/ PropsSet(1)
    \/ AtRest(1) /\ CallRefresh(2)
    \/ AtRest(1) /\ CallGetGlobalVariables(2)
    \/ AtRest(1) /\ CallEnsureCompleteMonths(2)
    \/ CacheGet(2)
    \/ PropsGet(2)
    \/ CacheFill(2)
    \/ Load(2)
    \/ CachePut(2)
    \/ PropsSet(2)
    \/ CheckRequired(2)
    \/ CacheExpire

SpecRoundTrip == RoundTripInit /\ [][RoundTripNext]_vars

-----------------------------------------------------------------------------
(* getWorkerInfoByName over rosters of every shape: data holds the two tabs, *)
(* nameArg the name asked for, nameResult the record returned *)

\* The workerName cells of a tab, top to bottom
NameColumns ==
    { <<>>,
      << <<" ", "B", "o">>, <<"B", "o">> >>,
      << <<"b", "o">>, <<"B", "o", " ">> >>,
      << <<>>, <<"A", "l">> >>,
      << <<" ">>, <<"A", "l">> >> }

\* workerEmail by tab and row, so that a record tells where it came from
EmailAt == << <<"one@cps", "two@cps">>, <<"one@add", "two@add">> >>

MissingTab == [present |-> FALSE, rows |-> <<>>]

TabOf(t, names) ==
    [present |-> TRUE,
     rows |-> [k \in 1..Len(names) |->
                  [workerName |-> names[k], workerEmail |-> EmailAt[t][k],
                   supervisorName |-> <<"S", "a", "m">>, supervisorEmail |-> "sam@cps"]]]

\* CPSEmployeeInfo and Additional Workers Info, either of which may be missing
Rosters ==
    { <<first, second>> :
        first \in {MissingTab} \cup {TabOf(1, names) : names \in NameColumns},
        second \in {MissingTab} \cup {TabOf(2, names) : names \in NameColumns} }

\* The names asked for
LookupNames ==
    { <<>>, <<" ">>, <<"B", "o">>, <<" ", "B", "o", " ">>, <<"b", "o">>, <<"A", "l">>,
      <<"Z", "e", "d">> }

LookupInit ==
    /\ data \in Rosters
    /\ nameArg = <<>>
    /\ nameResult = NotFound
    /\ pc = "ask"
    /\ invocation = 0
    /\ mailLog = {}
    /\ build = "GlobalVarsCache.js"
    /\ proc = <<>>
    /\ scriptCache = NoEntry
    /\ scriptProperties = NoEntry
    /\ clock = FirstDay
    /\ varTable = <<>>
    /\ today = Midnight(FirstDay)
    /\ completeMonths = <<>>
    /\ startMonths = <<>>
    /\ sheetIdx = 0
    /\ decision = "none"
    /\ rowIdx = 0
    /\ remindersSent = 0
    /\ events = <<>>
    /\ outbox = <<>>
    /\ writes = {}

\* getWorkerInfoByName(name) on the tabs of data
Lookup ==
    /\ pc \in {"ask", "told"}
    /\ \E name \in LookupNames :
           /\ nameArg' = name
           /\ nameResult' = IF name = <<>> THEN NotFound ELSE SearchTabs(data, name)
    /\ pc' = "told"
    /\ UNCHANGED <<clock, varTable, today, completeMonths, startMonths, sheetIdx, decision,
                   data, rowIdx, remindersSent, events, outbox, writes,
                   invocation, mailLog, build, proc, scriptCache, scriptProperties>>

LookupNext == Lookup

SpecLookup == LookupInit /\ [][LookupNext]_vars

-----------------------------------------------------------------------------
(* getWorkerInfoByName cell by cell: a tab is its header row and its rows of *)
(* cells; data holds the two tabs, nameArg the name, nameResult the outcome *)

\* What an array gives at an index it does not have
Undefined == <<"undefined">>

FullHeaders == <<"workerName", "workerEmail", "supervisorName", "supervisorEmail">>

\* headers.indexOf(h), counted from 1; 0 stands for -1
indexOf(headers, h) ==
    IF \E k \in DOMAIN headers : headers[k] = h
    THEN CHOOSE k \in DOMAIN headers : headers[k] = h /\ \A j \in 1..(k - 1) : headers[j] # h
    ELSE 0

\* data[i][idx]
CellAt(row, idx) == IF idx \in DOMAIN row THEN row[idx] ELSE Undefined

\* The rows below the header of a tab
DirectoryRows ==
    { <<>>,
      << << <<"B", "o", " ">>, <<"x">>, <<"S">>, <<"y">> >> >>,
      << << <<>>, <<"x">>, <<"S">>, <<"y">> >>,
         << <<"A", "l">>, <<>>, <<"S">>, <<"y">> >> >> }

\* The header rows: all four columns; workerName missing; workerEmail missing;
\* a tab that was never filled in
DirectoryHeaders ==
    { FullHeaders,
      <<"name", "workerEmail", "supervisorName", "supervisorEmail">>,
      <<"workerName", "email", "supervisorName", "supervisorEmail">>,
      << "" >> }

DirectoryTabs ==
    {[present |-> FALSE, headers |-> <<>>, rows |-> <<>>]} \cup
    {[present |-> TRUE, headers |-> h, rows |-> r] :
        h \in DirectoryHeaders, r \in DirectoryRows}

Directories == {<<first, second>> : first \in DirectoryTabs, second \in DirectoryTabs}

DirectoryNames == {<<>>, <<"B", "o">>, <<"A", "l">>, <<"Z", "e", "d">>}

Threw == [kind |-> "threw", workerName |-> <<>>, workerEmail |-> <<>>,
          supervisorName |-> <<>>, supervisorEmail |-> <<>>]

Null == [kind |-> "null", workerName |-> <<>>, workerEmail |-> <<>>,
         supervisorName |-> <<>>, supervisorEmail |-> <<>>]

\* The test of line 159 without its first operand: toString of undefined throws
RowTest_NoGuard(cell, name) ==
    IF cell = Undefined THEN "TypeError"
    ELSE IF trim(cell) = trim(name) THEN "match" ELSE "next"

\* Line 159: data[i][nameIdx] && data[i][nameIdx].toString().trim() === name.trim()
RowTest(cell, name) ==
    IF cell = Undefined \/ cell = <<>> THEN "next"
    ELSE IF trim(cell) = trim(name) THEN "match" ELSE "next"

\* Lines 158-169: the row loop of one tab, from row i
RECURSIVE ScanRows(_, _, _)
ScanRows(tab, name, i) ==
    IF i > Len(tab.rows) THEN Null
    ELSE LET row == tab.rows[i]
             test == RowTest(CellAt(row, indexOf(tab.headers, "workerName")), name)
         IN  IF test = "TypeError" THEN Threw
             ELSE IF test = "match"
             THEN [kind |-> "record",
                   workerName |-> CellAt(row, indexOf(tab.headers, "workerName")),
                   workerEmail |-> CellAt(row, indexOf(tab.headers, "workerEmail")),
                   supervisorName |-> CellAt(row, indexOf(tab.headers, "supervisorName")),
                   supervisorEmail |-> CellAt(row, indexOf(tab.headers, "supervisorEmail"))]
             ELSE ScanRows(tab, name, i + 1)

\* Lines 146-171: the tab loop
RECURSIVE ScanTabs(_, _)
ScanTabs(tabs, name) ==
    IF tabs = <<>> THEN Null
    ELSE IF ~Head(tabs).present THEN ScanTabs(Tail(tabs), name)
    ELSE LET found == ScanRows(Head(tabs), name, 1)
         IN  IF found.kind = "null" THEN ScanTabs(Tail(tabs), name) ELSE found

DirectoryInit ==
    /\ data \in Directories
    /\ nameArg = <<>>
    /\ nameResult = Null
    /\ pc = "ask"
    /\ invocation = 0
    /\ mailLog = {}
    /\ build = "GlobalVarsCache.js"
    /\ proc = <<>>
    /\ scriptCache = NoEntry
    /\ scriptProperties = NoEntry
    /\ clock = FirstDay
    /\ varTable = <<>>
    /\ today = Midnight(FirstDay)
    /\ completeMonths = <<>>
    /\ startMonths = <<>>
    /\ sheetIdx = 0
    /\ decision = "none"
    /\ rowIdx = 0
    /\ remindersSent = 0
    /\ events = <<>>
    /\ outbox = <<>>
    /\ writes = {}

\* getWorkerInfoByName(name) on the tabs of data
DirectoryLookup ==
    /\ pc \in {"ask", "told"}
    /\ \E name \in DirectoryNames :
           /\ nameArg' = name
           /\ nameResult' = IF name = <<>> THEN Null ELSE ScanTabs(data, name)
    /\ pc' = "told"
    /\ UNCHANGED <<clock, varTable, today, completeMonths, startMonths, sheetIdx, decision,
                   data, rowIdx, remindersSent, events, outbox, writes,
                   invocation, mailLog, build, proc, scriptCache, scriptProperties>>

DirectoryNext == DirectoryLookup

SpecDirectory == DirectoryInit /\ [][DirectoryNext]_vars

-----------------------------------------------------------------------------
(* sendMonthlyContactReminders day after day on one sheet.  data holds the *)
(* rows of "December Contacts" and stays from one day to the next; a run is *)
(* one step; between the runs the user enters a contact or adds a row. *)

MaxDailyRows == 2
NumDailyDays == 15

DailySheet == Workbook[2]

\* 23 December 2024, a Monday, to the Monday two weeks later
DailyDays == FirstDay..(FirstDay + NumDailyDays - 1)

\* Rows of the sheet: due with the main worker, due with a roster worker,
\* entered, and seen the month before
DailyRowKinds ==
    { ContactRow("Kid", SeenDec, NameAl, EmptyCell),
      ContactRow("Kid", SeenDec, NameBo, EmptyCell),
      ContactRow("Kid", SeenDec, NameAl, DateCell(DayOf(2024, 12, 6))),
      ContactRow("Kid", SeenNov, NameBo, EmptyCell) }

\* What the row loop can end on for a row: a skip of lines 96-115, a lookup miss,
\* or an outcome of the try block of sendContactReminderRow
RowOutcomes(row, now) ==
    LET check == RowCheck(row, now, getDay(now) = 1)
        req == PrepareReminder(row, now)
    IN  IF check # "send" THEN {check}
        ELSE IF req.kind = "miss" THEN {"lookupMiss"}
        ELSE SendOutcomes(req)

AllOutcomes ==
    {"skipMissing", "skipEntered", "skipBadDate", "skipPrior", "lookupMiss",
     "sent", "sendFailed", "writeFailed"}

DailyInit ==
    /\ clock = FirstDay
    /\ varTable = << <<"caseTrackerUrl", <<"u">> >> >>
    /\ pc = "idle"
    /\ today = Midnight(FirstDay)
    /\ completeMonths = <<>>
    /\ startMonths = <<>>
    /\ sheetIdx = 0
    /\ decision = "none"
    /\ data \in UNION {[1..n -> DailyRowKinds] : n \in 0..MaxDailyRows}
    /\ rowIdx = 0
    /\ remindersSent = 0
    /\ events = <<>>
    /\ outbox = <<>>
    /\ writes = {}
    /\ nameArg = <<>>
    /\ nameResult = -1
    /\ invocation = 0
    /\ mailLog = {}
    /\ build = "GlobalVarsCache.js"
    /\ proc = <<>>
    /\ scriptCache = NoEntry
    /\ scriptProperties = NoEntry

\* sendMonthlyContactReminders (lines 12-69) with processContactSheet and
\* sendContactReminderRow, on the day of clock.  Column F, which the run writes,
\* is read nowhere, so the write is kept in writes and not in data.
\* mailLog holds the emails the mail service accepted in the run; outbox keeps
\* one entry from the first run on in which the mail service refused an email.
DailyRun ==
    /\ pc = "idle"
    /\ LET now == [day |-> clock, hour |-> 9]
           complete == ParseCompleteMonths(LoadedValue(varTable, CompleteMonthsKey))
           choice == SheetDecision(DailySheet, getMonth(now), complete)
       IN  /\ today' = now
           /\ startMonths' = complete
           /\ IF choice # "scan"
              THEN /\ decision' = choice
                   /\ events' = <<>>
                   /\ remindersSent' = 0
                   /\ completeMonths' = complete
                   /\ mailLog' = {}
                   /\ writes' = {}
                   /\ UNCHANGED <<varTable, outbox>>
              ELSE \E results \in [DOMAIN data -> AllOutcomes] :
                       /\ \A i \in DOMAIN data : results[i] \in RowOutcomes(data[i], now)
                       /\ events' = results
                       /\ remindersSent' = Cardinality({i \in DOMAIN data : results[i] = "sent"})
                       /\ mailLog' = {[day |-> clock, row |-> i,
                                        to |-> PrepareReminder(data[i], now).to] :
                                         i \in {j \in DOMAIN data :
                                                   results[j] \in {"sent", "writeFailed"}}}
                       /\ writes' = {[row |-> i + 1, column |-> LastReminderColumn,
                                       value |-> formatDate(now)] :
                                        i \in {j \in DOMAIN data : results[j] = "sent"}}
                       /\ outbox' = IF \E i \in DOMAIN data : results[i] = "sendFailed"
                                    THEN <<[delivered |-> FALSE]>> ELSE outbox
                       /\ IF MarksComplete(getDay(now) = 1, remindersSent')
                          THEN /\ completeMonths' = Append(complete, monthMatch(DailySheet))
                               /\ varTable' = updateGlobalVariable(varTable, CompleteMonthsKey,
                                                                   join(completeMonths'))
                               /\ decision' = "added"
                          ELSE /\ completeMonths' = complete
                               /\ decision' = "kept"
                               /\ UNCHANGED varTable
    /\ pc' = "ran"
    /\ UNCHANGED <<clock, sheetIdx, data, rowIdx, nameArg, nameResult,
                   invocation, build, proc, scriptCache, scriptProperties>>

\* The user types the date into column E of a row
EnterContact ==
    /\ pc = "idle"
    /\ \E i \in DOMAIN data :
           /\ ~Truthy(data[i].dateContactEntered)
           /\ data' = [data EXCEPT ![i].dateContactEntered = DateCell(clock)]
    /\ UNCHANGED <<clock, varTable, pc, today, completeMonths, startMonths, sheetIdx,
                   decision, rowIdx, remindersSent, events, outbox, writes, nameArg,
                   nameResult, invocation, mailLog, build, proc, scriptCache,
                   scriptProperties>>

\* The user adds a row below the last one
AddRow ==
    /\ pc = "idle"
    /\ Len(data) < MaxDailyRows
    /\ \E row \in DailyRowKinds : data' = Append(data, row)
    /\ UNCHANGED <<clock, varTable, pc, today, completeMonths, startMonths, sheetIdx,
                   decision, rowIdx, remindersSent, events, outbox, writes, nameArg,
                   nameResult, invocation, mailLog, build, proc, scriptCache,
                   scriptProperties>>

\* The daily trigger: the next day begins
NextMorning ==
    /\ pc = "ran"
    /\ clock + 1 \in DailyDays
    /\ clock' = clock + 1
    /\ pc' = "idle"
    /\ UNCHANGED <<varTable, today, completeMonths, startMonths, sheetIdx, decision, data,
                   rowIdx, remindersSent, events, outbox, writes, nameArg, nameResult,
                   invocation, mailLog, build, proc, scriptCache, scriptProperties>>

DailyNext ==
    \/ DailyRun
    \/ EnterContact
    \/ AddRow
    \/ NextMorning

SpecDaily == DailyInit /\ [][DailyNext]_vars

-----------------------------------------------------------------------------
(* Two runs of sendMonthlyContactReminders at once, on Monday 23 December. *)
(* proc holds the locals of each run; a step takes a run through one sheet. *)

IdleRun == [pc |-> "idle", completeMonths |-> <<>>, startMonths |-> <<>>,
            sheetIdx |-> 0, added |-> <<>>]

\* What a sheet can hold when a run reads it: nothing, or a row that is due
OverlapContents == {<<>>, <<ContactRow("Kid", SeenDec, NameAl, EmptyCell)>>}

\* The text persisted by a run that also keeps the labels the tab holds by then
PersistedText_Union(table, local) ==
    LET stored == ParseCompleteMonths(LoadedValue(table, CompleteMonthsKey))
    IN  join(stored \o SelectSeq(local, LAMBDA m : ~Includes(stored, m)))

\* Line 66: the text handed to updateGlobalVariable is the join of the run's list
PersistedText(table, local) == join(local)

OverlapInit ==
    /\ clock = FirstDay
    /\ varTable \in InitialTables
    /\ proc = <<IdleRun, IdleRun>>
    /\ pc = "idle"
    /\ today = [day |-> FirstDay, hour |-> 9]
    /\ completeMonths = <<>>
    /\ startMonths = <<>>
    /\ sheetIdx = 0
    /\ decision = "none"
    /\ data = <<>>
    /\ rowIdx = 0
    /\ remindersSent = 0
    /\ events = <<>>
    /\ outbox = <<>>
    /\ writes = {}
    /\ nameArg = <<>>
    /\ nameResult = -1
    /\ invocation = 0
    /\ mailLog = {}
    /\ build = "GlobalVarsCache.js"
    /\ scriptCache = NoEntry
    /\ scriptProperties = NoEntry

\* Lines 20-36 of run r: the list is parsed from the value the tab holds now
OverlapStart(r) ==
    /\ proc[r].pc = "idle"
    /\ LET complete == ParseCompleteMonths(LoadedValue(varTable, CompleteMonthsKey))
       IN  proc' = [proc EXCEPT ![r] = [IdleRun EXCEPT !.pc = "sheets",
                                                         !.completeMonths = complete,
                                                         !.startMonths = complete]]
    /\ UNCHANGED <<clock, varTable, pc, today, completeMonths, startMonths, sheetIdx,
                   decision, data, rowIdx, remindersSent, events, outbox, writes, nameArg,
                   nameResult, invocation, mailLog, build, scriptCache, scriptProperties>>

\* Lines 38-67 of run r for its next sheet: skipped, or scanned and perhaps marked
OverlapSheet(r) ==
    /\ proc[r].pc = "sheets"
    /\ proc[r].sheetIdx < Len(Workbook)
    /\ LET name == Workbook[proc[r].sheetIdx + 1]
           local == proc[r].completeMonths
       IN  IF SheetDecision(name, getMonth(today), local) # "scan"
           THEN /\ proc' = [proc EXCEPT ![r].sheetIdx = @ + 1]
                /\ UNCHANGED varTable
           ELSE \E content \in OverlapContents :
                \E results \in [DOMAIN content -> AllOutcomes] :
                    /\ \A i \in DOMAIN content :
                           results[i] \in RowOutcomes(content[i], today)
                    /\ IF MarksComplete(getDay(today) = 1,
                                        Cardinality({i \in DOMAIN content :
                                                       results[i] = "sent"}))
                       THEN /\ proc' = [proc EXCEPT
                                          ![r].sheetIdx = @ + 1,
                                          ![r].completeMonths = Append(@, monthMatch(name)),
                                          ![r].added = Append(@, monthMatch(name))]
                            /\ varTable' = updateGlobalVariable(varTable, CompleteMonthsKey,
                                   PersistedText(varTable, proc'[r].completeMonths))
                       ELSE /\ proc' = [proc EXCEPT ![r].sheetIdx = @ + 1]
                            /\ UNCHANGED varTable
    /\ UNCHANGED <<clock, pc, today, completeMonths, startMonths, sheetIdx,
                   decision, data, rowIdx, remindersSent, events, outbox, writes, nameArg,
                   nameResult, invocation, mailLog, build, scriptCache, scriptProperties>>

\* Line 68 of run r: the sheet loop is over
OverlapFinish(r) ==
    /\ proc[r].pc = "sheets"
    /\ proc[r].sheetIdx = Len(Workbook)
    /\ proc' = [proc EXCEPT ![r].pc = "done"]
    /\ UNCHANGED <<clock, varTable, pc, today, completeMonths, startMonths, sheetIdx,
                   decision, data, rowIdx, remindersSent, events, outbox, writes, nameArg,
                   nameResult, invocation, mailLog, build, scriptCache, scriptProperties>>

OverlapNext ==
    \/ \E r \in DOMAIN proc : OverlapStart(r)
    \/ \E r \in DOMAIN proc : OverlapSheet(r)
    \/ \E r \in DOMAIN proc : OverlapFinish(r)

SpecOverlap == OverlapInit /\ [][OverlapNext]_vars

-----------------------------------------------------------------------------
(* The call chains of the resolver.  ensureGlobalVariables, getGlobalVariables, *)
(* refreshGlobalVariablesCache, loadAutomationInfoSheet,                         *)
(* ensureAutomationInfoSheetURL and getAutomationInfoURL call one another; an    *)
(* execution is a stack of their frames.  proc[1] holds the execution: the      *)
(* stack, the globals AUTOMATION_INFO_SHEET_URL (url) and automationInfoSheet    *)
(* (sheet: the handle is open), the user property AUTOMATION_INFO_SHEET_URL      *)
(* (userUrl) and the value of the last return (ret).  The declarations of the    *)
(* two globals are not in the files at hand: an execution starts with any url    *)
(* and with the handle not yet opened, which is what the tests                   *)
(* if (!automationInfoSheet) of lines 283 and 337 read it as, or opened from    *)
(* that url.                                                                     *)

\* Texts a url can be: the empty text, blanks, the url of the Automation Info
\* spreadsheet, a url that opens nothing
BlankUrl == <<" ">>
SheetUrl == <<"u">>
DeadUrl == <<"x">>
UrlTexts == {<<>>, BlankUrl, SheetUrl, DeadUrl}

\* AUTOMATION_INFO_SHEET_URL && AUTOMATION_INFO_SHEET_URL.trim() !== ""
UrlSet(url) == url # <<>> /\ trim(url) # <<>>

\* SpreadsheetApp.openByUrl(url) returns for the url of the spreadsheet and
\* throws for anything else
Opens(url) == url = SheetUrl

\* The functions each file defines
Defines ==
    [file \in Builds |->
        {"loadAutomationInfoSheet", "ensureGlobalVariables", "getGlobalVariables",
         "refreshGlobalVariablesCache"} \cup
        (IF file = "GlobalVarsCache.js"
         THEN {"ensureAutomationInfoSheetURL", "getAutomationInfoURL"} ELSE {})]

\* Resolve taking the wrapper getGlobalVariables of part_001 and every other
\* function of GlobalVarsCache.js
Resolve_WrapperOfOther(name) ==
    IF name = "getGlobalVariables" THEN "part_001" ELSE "GlobalVarsCache.js"

\* The file whose definition of a name runs: the one loaded last when both
\* define it
Resolve(name) ==
    IF name \in Defines[build] THEN build
    ELSE CHOOSE file \in Builds : name \in Defines[file]

Frame(fn, keys) ==
    [fn |-> fn, file |-> Resolve(fn), at |-> "start", keys |-> keys, vars |-> <<>>]

\* The handle once the globals are declared: not opened, or opened from the url
\* when the url opens the spreadsheet
Handles(url) == {FALSE} \cup (IF Opens(url) THEN {TRUE} ELSE {})

\* An execution that has not called anything
FreshRun(url, userUrl, sheet) ==
    [status |-> "idle", stack |-> <<>>, url |-> url, sheet |-> sheet,
     userUrl |-> userUrl, ret |-> <<>>, reentered |-> FALSE]

Top(r) == r.stack[Len(r.stack)]

\* A call: the caller's frame remembers where it goes on, the callee's frame
\* goes on the stack; reentered records that a frame of the callee was already
\* on it
Call(r, fn, keys, goOn) ==
    [r EXCEPT !.stack = Append([@ EXCEPT ![Len(@)].at = goOn], Frame(fn, keys)),
              !.reentered = @ \/ \E i \in DOMAIN r.stack : r.stack[i].fn = fn]

\* return value
Return(r, value) ==
    [r EXCEPT !.stack = SubSeq(@, 1, Len(@) - 1), !.ret = value,
              !.status = IF Len(r.stack) = 1 THEN "returned" ELSE "running"]

\* The frames an exception leaves standing: refreshGlobalVariablesCache has its
\* whole body in a try (lines 155-178; part_001 130-153), the try of
\* loadAutomationInfoSheet throws again, no other frame catches
RECURSIVE Unwind(_)
Unwind(stack) ==
    IF stack = <<>> THEN <<>>
    ELSE IF stack[Len(stack)].fn = "refreshGlobalVariablesCache" THEN stack
    ELSE Unwind(SubSeq(stack, 1, Len(stack) - 1))

\* throw: the catch of refreshGlobalVariablesCache returns {}, or the execution
\* ends with the exception
Throw(r) ==
    LET left == Unwind(r.stack)
    IN  IF left = <<>> THEN [r EXCEPT !.stack = <<>>, !.status = "threw"]
        ELSE Return([r EXCEPT !.stack = left], <<>>)

\* getCachedBackupAutomationInfoSheetURL: the handle after it and the value it
\* returns; null reads as the empty text, both fail the test if (cachedUrl)
CachedBackup(r) ==
    LET opened == r.sheet \/ (r.url # <<>> /\ Opens(r.url))
        row == FoundRow(varTable, UrlMarker)
    IN  [sheet |-> opened,
         value |-> IF opened /\ row # 0 THEN varTable[row][2] ELSE <<>>]

\* updateAutomationInfoSheetBackupRow(url) on an open handle: setValue on the
\* row found, appendRow when there is none
BackupWritten(table, url) ==
    LET row == FoundRow(table, UrlMarker)
    IN  IF row = 0 THEN Append(table, <<UrlMarker, url, AutofillNote>>)
        ELSE [table EXCEPT ![row] = <<UrlMarker, url, AutofillNote>>]

\* What a step leaves behind
Outcome(r, table, cache, props) ==
    [run |-> r, table |-> table, cache |-> cache, props |-> props]

Keep(r) == Outcome(r, varTable, scriptCache, scriptProperties)

Apply(o) ==
    \E out \in {o} :
        /\ proc' = <<out.run>>
        /\ varTable' = out.table
        /\ scriptCache' = out.cache
        /\ scriptProperties' = out.props
        /\ UNCHANGED <<build, engineVars>>

\* The top frame is one of fn and the stack has room for the frame of a call
Runs(fn) ==
    /\ proc[1].status = "running"
    /\ Len(proc[1].stack) < MaxDepth
    /\ Top(proc[1]).fn = fn

\* AUTOMATION_INFO_SHEET_URL = url; updateAutomationInfoSheetBackupRow(url), which
\* opens the handle when it is not open and catches what it throws;
\* getGlobalVariables()
AdoptUrl(r, url, opened, written, goOn) ==
    LET handle == opened \/ Opens(url)
    IN  Outcome(Call([r EXCEPT !.url = url, !.sheet = handle], "getGlobalVariables",
                     <<>>, goOn),
                IF handle /\ written THEN BackupWritten(varTable, url) ELSE varTable,
                scriptCache, scriptProperties)

\* ensureAutomationInfoSheetURL, lines 257-279
StepEnsureUrl ==
    /\ Runs("ensureAutomationInfoSheetURL")
    /\ LET r == proc[1]
           cached == CachedBackup(r)
       IN  CASE Top(r).at = "start" ->
                    IF UrlSet(r.url) THEN Apply(Keep(Return(r, r.url)))
                    ELSE IF cached.value # <<>>
                    THEN \E written \in BOOLEAN :
                             Apply(AdoptUrl(r, cached.value, cached.sheet, written,
                                            "adopted"))
                    ELSE IF r.userUrl # <<>> /\ trim(r.userUrl) # <<>>
                    THEN \E written \in BOOLEAN :
                             Apply(AdoptUrl(r, r.userUrl, cached.sheet, written,
                                            "adopted"))
                    ELSE Apply(Keep(Call([r EXCEPT !.sheet = cached.sheet],
                                         "getAutomationInfoURL", <<>>, "asked")))
             [] Top(r).at = "adopted" -> Apply(Keep(Return(r, r.url)))
             [] Top(r).at = "asked" -> Apply(Keep(Return(r, r.ret)))

\* What the user answers to the prompt: Cancel, or OK with a text
Answers == {[ok |-> FALSE, text |-> <<>>]} \cup {[ok |-> TRUE, text |-> t] : t \in UrlTexts}

\* getAutomationInfoURL, lines 308-334; getUi throws in an execution that has no
\* user interface
StepGetAutomationInfoURL ==
    /\ Runs("getAutomationInfoURL")
    /\ LET r == proc[1]
       IN  CASE Top(r).at = "start" ->
                    \E ui \in BOOLEAN, answer \in Answers, written \in BOOLEAN :
                        LET newUrl == trim(answer.text)
                            saved == [r EXCEPT !.userUrl = newUrl, !.url = newUrl]
                        IN  Apply(IF ~ui \/ ~answer.ok \/ newUrl = <<>>
                                  THEN Keep(Throw(r))
                                  ELSE IF ~Opens(newUrl) THEN Keep(Throw(saved))
                                  ELSE AdoptUrl(saved, newUrl, TRUE, written, "saved"))
             [] Top(r).at = "saved" -> Apply(Keep(Return(r, r.url)))

\* The tier walk of getGlobalVariables of GlobalVarsCache.js (lines 115-143) and
\* of ensureGlobalVariables of part_001 (lines 65-96), behind their call of
\* ensureAutomationInfoSheetURL; part_001 returns filterVars of what it finds
TierWalk(r) ==
    LET keys == Top(r).keys
        propsVars == JSONparse(scriptProperties.json)
    IN  IF scriptCache.present
        THEN Apply(Keep(Return(r, filterVars(JSONparse(scriptCache.json), keys))))
        ELSE IF scriptProperties.present /\ Len(propsVars) > 0
        THEN \E putOk \in BOOLEAN :
                 Apply(IF putOk
                       THEN Outcome(Return(r, filterVars(propsVars, keys)), varTable,
                                    EntryOf(propsVars), scriptProperties)
                       ELSE Keep(Throw(r)))
        ELSE Apply(Keep(Call(r, "refreshGlobalVariablesCache", <<>>, "refreshed")))

\* getGlobalVariables: of GlobalVarsCache.js, lines 113-144; of part_001, lines
\* 119-122, the call of ensureGlobalVariables(REQUIRED_KEYS, showPopup)
StepGetGlobalVariables ==
    /\ Runs("getGlobalVariables")
    /\ LET r == proc[1]
       IN  IF Top(r).file = "part_001"
           THEN CASE Top(r).at = "start" ->
                         Apply(Keep(Call(r, "ensureGlobalVariables", REQUIRED_KEYS,
                                         "ensured")))
                  [] Top(r).at = "ensured" -> Apply(Keep(Return(r, r.ret)))
           ELSE CASE Top(r).at = "start" ->
                         Apply(Keep(Call(r, "ensureAutomationInfoSheetURL", <<>>,
                                         "tiers")))
                  [] Top(r).at = "tiers" -> TierWalk(r)
                  [] Top(r).at = "refreshed" -> Apply(Keep(Return(r, r.ret)))

\* requiredKeys.length > 0 and a filter of lines 37 and 45 that keeps a key
SomeMissing(obj, requiredKeys) ==
    requiredKeys # <<>> /\ missingKeys(obj, requiredKeys) # <<>>

\* ensureGlobalVariables: of part_001, lines 63-97; of GlobalVarsCache.js, lines
\* 29-54, getGlobalVariables(false), the test of the required keys, the refresh
\* and the throw
StepEnsureGlobalVariables ==
    /\ Runs("ensureGlobalVariables")
    /\ LET r == proc[1]
           keys == Top(r).keys
       IN  IF Top(r).file = "part_001"
           THEN CASE Top(r).at = "start" ->
                         Apply(Keep(Call(r, "ensureAutomationInfoSheetURL", <<>>,
                                         "tiers")))
                  [] Top(r).at = "tiers" -> TierWalk(r)
                  [] Top(r).at = "refreshed" ->
                         Apply(Keep(Return(r, filterVars(r.ret, keys))))
           ELSE CASE Top(r).at = "start" ->
                         Apply(Keep(Call(r, "getGlobalVariables", <<>>, "check")))
                  [] Top(r).at = "check" ->
                         IF SomeMissing(r.ret, keys)
                         THEN Apply(Keep(Call(r, "refreshGlobalVariablesCache", <<>>,
                                              "recheck")))
                         ELSE Apply(Keep(Return(r, r.ret)))
                  [] Top(r).at = "recheck" ->
                         IF SomeMissing(r.ret, keys) THEN Apply(Keep(Throw(r)))
                         ELSE Apply(Keep(Return(r, r.ret)))

\* refreshGlobalVariablesCache, lines 154-179 (part_001 129-154): the load, the
\* throw on an empty mapping, the two writes, all in the try
StepRefresh ==
    /\ Runs("refreshGlobalVariablesCache")
    /\ LET r == proc[1]
       IN  CASE Top(r).at = "start" ->
                    Apply(Keep(Call(r, "loadAutomationInfoSheet", <<>>, "store")))
             [] Top(r).at = "store" ->
                    IF r.ret = <<>> THEN Apply(Keep(Throw(r)))
                    ELSE \E putOk \in BOOLEAN, setOk \in BOOLEAN :
                             Apply(IF ~putOk THEN Keep(Throw(r))
                                   ELSE IF ~setOk
                                   THEN Outcome(Throw(r), varTable, EntryOf(r.ret),
                                                scriptProperties)
                                   ELSE Outcome(Return(r, r.ret), varTable,
                                                EntryOf(r.ret), EntryOf(r.ret)))

\* loadAutomationInfoSheet, lines 64-100 (part_001 19-53)
StepLoad ==
    /\ Runs("loadAutomationInfoSheet")
    /\ LET r == proc[1]
       IN  CASE Top(r).at = "start" ->
                    Apply(Keep(Call(r, "ensureAutomationInfoSheetURL", <<>>, "open")))
             [] Top(r).at = "open" ->
                    IF ~Opens(r.url) THEN Apply(Keep(Throw(r)))
                    ELSE \E readOk \in BOOLEAN :
                             Apply(IF ~readOk THEN Keep(Throw([r EXCEPT !.sheet = TRUE]))
                                   ELSE Keep(Return([r EXCEPT !.sheet = TRUE],
                                                    loadAutomationInfoSheet(varTable))))

\* The Variables tab that holds all six required keys
CompleteTable ==
    CHOOSE t \in ConfigTables : missingKeys(loadAutomationInfoSheet(t), REQUIRED_KEYS) = <<>>

\* Variables tabs: the six required keys or no usable row, and the backup row of
\* the url: none, or one whose value is the url, blanks, or a url that opens nothing
ResolveTables ==
    { base \o backup :
        base \in {CompleteTable, << <<"SSM_EMAIL", <<" ">> >> >>},
        backup \in {<<>>} \cup { << <<UrlMarker, u, AutofillNote>> >> :
                                   u \in UrlTexts \ {<<>>} } }

ResolveEntries == {NoEntry, EntryOf(loadAutomationInfoSheet(CompleteTable))}

ResolveInit ==
    /\ build \in Builds
    /\ \E url \in UrlTexts, userUrl \in UrlTexts :
           \E sheet \in Handles(url) : proc = <<FreshRun(url, userUrl, sheet)>>
    /\ varTable \in ResolveTables
    /\ scriptCache \in ResolveEntries
    /\ scriptProperties \in ResolveEntries
    /\ EngineAtRest

\* A trigger, a menu item or an engine calls one of the three functions
CallResolver ==
    /\ proc[1].status = "idle"
    /\ \E fn \in {"ensureGlobalVariables", "getGlobalVariables",
                  "ensureAutomationInfoSheetURL"} :
           \E keys \in (IF fn = "ensureGlobalVariables" THEN {<<>>, REQUIRED_KEYS}
                        ELSE {<<>>}) :
               proc' = <<[proc[1] EXCEPT !.status = "running",
                                         !.stack = <<Frame(fn, keys)>>]>>
    /\ UNCHANGED <<build, scriptCache, scriptProperties, varTable, engineVars>>

\* The execution is over; the next one starts with its globals declared anew,
\* the user property and the tiers stay
NextExecution ==
    /\ proc[1].status \in {"returned", "threw"}
    /\ \E url \in UrlTexts :
           \E sheet \in Handles(url) : proc' = <<FreshRun(url, proc[1].userUrl, sheet)>>
    /\ UNCHANGED <<build, scriptCache, scriptProperties, varTable, engineVars>>

ResolveStep ==
    \/ StepEnsureUrl
    \/ StepGetAutomationInfoURL
    \/ StepGetGlobalVariables
    \/ StepEnsureGlobalVariables
    \/ StepRefresh
    \/ StepLoad

ResolveNext ==
    \/ CallResolver
    \/ NextExecution
    \/ StepEnsureUrl
    \/ StepGetAutomationInfoURL
    \/ StepGetGlobalVariables
    \/ StepEnsureGlobalVariables
    \/ StepRefresh
    \/ StepLoad

\* An execution runs to its end: the interpreter takes the next step of the top
\* frame as long as there is one
SpecResolve == ResolveInit /\ [][ResolveNext]_vars /\ WF_vars(ResolveStep)

-----------------------------------------------------------------------------
(* sendMonthlyContactReminders with the resolver behind its line 15 *)

RunDay == DayOf(2024, 12, 30)

\* The Variables tabs that hold no row with both a key and a value
RunTables == {t \in ConfigTables : loadAutomationInfoSheet(t) = <<>>}

RunInit ==
    /\ build \in Builds
    /\ proc = <<IdleProc>>
    /\ varTable \in RunTables
    /\ scriptCache = NoEntry
    /\ scriptProperties = NoEntry
    /\ clock = RunDay
    /\ pc = "idle"
    /\ today = Midnight(clock)
    /\ completeMonths = <<>>
    /\ startMonths = <<>>
    /\ sheetIdx = 0
    /\ decision = "none"
    /\ data = <<>>
    /\ rowIdx = 0
    /\ remindersSent = 0
    /\ events = <<>>
    /\ outbox = <<>>
    /\ writes = {}
    /\ nameArg = <<>>
    /\ nameResult = -1
    /\ invocation = 0
    /\ mailLog = {}

\* Lines 12-15: a new execution, with no locals yet, enters getGlobalVariables(false)
RunCall ==
    /\ pc \in {"idle", "aborted"}
    /\ pc' = "loading"
    /\ proc' = [proc EXCEPT ![1] =
                   [IdleProc EXCEPT !.op = "getGlobalVariables", !.pc = "cacheGet",
                                    !.keys = IF build = "part_001" THEN REQUIRED_KEYS
                                             ELSE <<>>]]
    /\ sheetIdx' = 0
    /\ decision' = "none"
    /\ completeMonths' = <<>>
    /\ startMonths' = <<>>
    /\ SheetLocalsReset
    /\ UNCHANGED <<clock, varTable, today, nameArg, nameResult,
                   invocation, mailLog, build, scriptCache, scriptProperties>>

\* Lines 13-19: the call comes back with a mapping, or with an exception that the
\* catch turns into a return; the locals of the call are gone
RunReturn ==
    /\ pc = "loading"
    /\ proc[1].pc \in {"returned", "threw"}
    /\ pc' = IF proc[1].pc = "returned" THEN "loaded" ELSE "failed"
    /\ proc' = [proc EXCEPT ![1] =
                   [IdleProc EXCEPT !.op = proc[1].op, !.pc = proc[1].pc,
                                    !.result = proc[1].result]]
    /\ UNCHANGED <<clock, varTable, today, completeMonths, startMonths, sheetIdx, decision, data,
                   rowIdx, remindersSent, events, outbox, writes, nameArg, nameResult,
                   invocation, mailLog, build, scriptCache, scriptProperties>>

RunNext ==
    \/ RunCall
    \/ pc = "loading" /\ CacheGet(1)
    \/ pc = "loading" /\ PropsGet(1)
    \/ pc = "loading" /\ CacheFill(1)
    \/ pc = "loading" /\ Load(1)
    \/ pc = "loading" /\ CachePut(1)
    \/ pc = "loading" /\ PropsSet(1)
    \/ pc \in {"idle", "aborted"} /\ CacheExpire
    \/ RunReturn
    \/ pc = "loaded" /\ StartRun
    \/ pc = "failed" /\ AbortRun
    \/ SkipSheet
    \/ ScanSheet
    \/ ReadSheet
    \/ ProcessRow
    \/ FinishSheet
    \/ FinishRun

SpecRun == RunInit /\ [][RunNext]_vars

-----------------------------------------------------------------------------
(* Properties of the contact-reminder scan (specification Spec) *)

MailsOfRow(i) == {k \in 1..Len(outbox) : outbox[k].row = i}
WritesOfRow(i) == {w \in writes : w.row = i + 1}

\* C1: a row whose dateContactEntered holds a value gets no email request and no
\* write to its lastReminderSent cell, whatever else the row and the day are
C1_EnteredRowGetsNoReminder ==
    \A i \in 1..rowIdx :
        Truthy(data[i].dateContactEntered) =>
            /\ MailsOfRow(i) = {}
            /\ WritesOfRow(i) = {}
            /\ events[i] \in {"skipMissing", "skipEntered"}

\* A Monday scan passed over an entered row of a known worker and a prior month,
\* and sent a reminder for another row of the same sheet
C1_Witness ==
    /\ getDay(today) = 1
    /\ rowIdx = 2
    /\ \E i \in 1..2 :
           /\ Truthy(data[i].dateContactEntered)
           /\ data[i].seenBy = NameBo
           /\ events[i] = "skipEntered"
    /\ \E j \in 1..2 : events[j] = "sent"

\* C4: the completed-months value is rewritten only by the step that follows a
\* whole scan, on a Monday, of a sheet whose scan reported no reminder sent
C4_AddedOnlyOnMondayWithZeroSent ==
    [][ (varTable' # varTable \/ (pc = "rows" /\ completeMonths' # completeMonths)) =>
           /\ getDay(today) = 1
           /\ pc = "rows"
           /\ rowIdx = Len(data)
           /\ remindersSent = 0
           /\ \A i \in 1..Len(events) : events[i] # "sent"
           /\ completeMonths' = Append(completeMonths, monthMatch(Workbook[sheetIdx]))
      ]_vars

\* Scenario E: on a Monday the only row of a sheet, a prior-month row, was sent,
\* and the sheet was not added
C4_Witness ==
    /\ getDay(today) = 1
    /\ decision = "kept"
    /\ Len(data) = 1
    /\ events = <<"sent">>
    /\ remindersSent = 1
    /\ data[1].dateSeenRaw = SeenNov
    /\ ~Includes(completeMonths, monthMatch(Workbook[sheetIdx]))

-----------------------------------------------------------------------------
(* Properties of the summary reminders (specification SpecSummary) *)

\* today - dueDate in whole calendar days
DayOffset(row) == today.day - row.dueDateRaw.day

TierOfOffset(off) ==
    IF off < -1 THEN "none"
    ELSE IF off = -1 THEN "preDue"
    ELSE IF off = 0 THEN "dueToday"
    ELSE IF off <= 6 THEN "minorOverdue"
    ELSE "severeOverdue"

Emailable(row) ==
    ~row.submitted /\ ValidDate(row.dueDateRaw) /\ lastNameOf(row.fullName) # <<>>

\* C2: for an unsubmitted row with a due date and a case name the tier follows from
\* the day offset alone: -1 pre-due, 0 due today, 1..6 minor, 7 and more severe,
\* and no email exactly when the offset is below -1
C2_SummaryTierByDayOffset ==
    \A i \in 1..rowIdx :
        Emailable(data[i]) =>
            /\ events[i] = TierOfOffset(DayOffset(data[i]))
            /\ (MailsOfRow(i) = {}) <=> (DayOffset(data[i]) < -1)
            /\ Cardinality(MailsOfRow(i)) <= 1

\* A row six days late in the afternoon got the 1-6 days email, and a row more
\* than one day ahead of its due date got none
C2_Witness ==
    /\ today.hour = 15
    /\ rowIdx = 2
    /\ \E i \in 1..2 :
           /\ Emailable(data[i]) /\ DayOffset(data[i]) = 6
           /\ events[i] = "minorOverdue"
    /\ \E j \in 1..2 :
           /\ Emailable(data[j]) /\ DayOffset(data[j]) < -1
           /\ events[j] = "none"

\* C3: the recipients of a summary email follow from the tier alone: worker for
\* pre-due and due today, worker and supervisor for 1 to 6 days late, worker,
\* supervisor and manager for 7 and more days late
C3_SummaryRecipientsByTier ==
    \A k \in 1..Len(outbox) :
        LET off == DayOffset(data[outbox[k].row])
        IN  /\ off >= -1
            /\ off \in {-1, 0} => outbox[k].to = <<MAIN_WORKER_EMAIL>>
            /\ off \in 1..6 => outbox[k].to = <<MAIN_WORKER_EMAIL, MAIN_SUPERVISOR_EMAIL>>
            /\ off >= 7 =>
                   outbox[k].to = <<MAIN_WORKER_EMAIL, MAIN_SUPERVISOR_EMAIL, SSM_EMAIL>>

\* Scenario B: due 2024-03-10, today 2024-03-15, sent to worker and supervisor
C3_Witness ==
    /\ today.day = DayOf(2024, 3, 15)
    /\ \E k \in 1..Len(outbox) :
           /\ data[outbox[k].row].dueDateRaw = DueA
           /\ outbox[k].to = <<MAIN_WORKER_EMAIL, MAIN_SUPERVISOR_EMAIL>>
           /\ outbox[k].delivered

-----------------------------------------------------------------------------
(* Properties of the completed months (specification Spec) *)

\* The label of the sheet the loop is at, <<>> before the first sheet
SheetLabel == IF sheetIdx = 0 THEN <<>> ELSE monthMatch(Workbook[sheetIdx])

PersistedMonths == ParseCompleteMonths(LoadedValue(varTable, CompleteMonthsKey))

Occurrences(list, x) == Cardinality({k \in 1..Len(list) : list[k] = x})

Outstanding(row) ==
    /\ row.childName # ""
    /\ Truthy(row.dateSeenRaw)
    /\ row.seenBy # <<>>
    /\ ~Truthy(row.dateContactEntered)

\* C5: when a label is added to the completed months, the sheet holds no row with
\* a child name, a seen date and a worker but no entered date; the code adds the
\* label also when such a row was not sent for a lookup miss or a failed delivery
C5_AddedImpliesNoOutstandingRow ==
    decision = "added" => \A i \in 1..Len(data) : ~Outstanding(data[i])

PeriodOf(day) == MonthIndex(day)

SentEvents == {i \in 1..Len(events) : events[i] = "sent"}

\* C7: on a day that is not a Monday a row whose seen date lies in a month before
\* today's month gets no email request and no write, and does not count as sent
C7_PriorPeriodRowSkippedOffMonday ==
    /\ remindersSent = Cardinality(SentEvents)
    /\ \A i \in 1..rowIdx :
           ( /\ ValidDate(data[i].dateSeenRaw)
             /\ PeriodOf(data[i].dateSeenRaw.day) < PeriodOf(today.day)
             /\ getDay(today) # 1 ) =>
               /\ MailsOfRow(i) = {}
               /\ WritesOfRow(i) = {}
               /\ i \notin SentEvents

\* On a Wednesday of January 2025 a complete row seen in December 2024 was
\* skipped for its month, and a row seen in January was sent
C7_Witness ==
    /\ getDay(today) = 3
    /\ getFullYear(today) = 2025
    /\ rowIdx = 2
    /\ \E i \in 1..2 :
           /\ data[i].dateSeenRaw = SeenDec
           /\ Outstanding(data[i])
           /\ events[i] = "skipPrior"
    /\ \E j \in 1..2 : data[j].dateSeenRaw = SeenJan /\ events[j] # "skipPrior"

\* The label is some spelling of the k-th month name
SpellingsOfMonth ==
    [k \in 1..Len(months) |-> {Spelling(months[k], style) : style \in Styles}] \o <<>>

SpellsMonth(label, k) == label \in SpellingsOfMonth[k]

FutureLabel(label) ==
    \E k \in 1..Len(months) : SpellsMonth(label, k) /\ k - 1 > getMonth(today)

\* C8: a sheet of a month after today's month, or whose label was among the
\* completed months read at the start of the run, is passed over: no row read or
\* evaluated, no email, no write, no update of the completed months
C8_FutureOrCompleteSheetUntouched ==
    (SheetLabel # <<>> /\ (FutureLabel(SheetLabel) \/ Includes(startMonths, SheetLabel))) =>
        /\ decision \in {"future", "complete"}
        /\ pc \in {"sheets", "idle"}
        /\ data = <<>> /\ rowIdx = 0 /\ events = <<>>
        /\ outbox = <<>> /\ writes = {} /\ remindersSent = 0
        /\ Occurrences(completeMonths, SheetLabel) = Occurrences(startMonths, SheetLabel)

\* In January the December sheet was passed over as a future month although it
\* is not among the completed months
C8_Witness ==
    /\ getMonth(today) = 0
    /\ SheetLabel = months[12]
    /\ ~Includes(startMonths, SheetLabel)
    /\ decision = "future"

\* C9: a sheet "<X> Contacts" whose X is no month name is passed over, and X is
\* never among the completed months; the code scans it as it does a past month
C9_NonMonthSheetSkipped ==
    (SheetLabel # <<>> /\ \A k \in 1..Len(months) : ~SpellsMonth(SheetLabel, k)) =>
        /\ decision \notin {"scan", "added", "kept"}
        /\ data = <<>> /\ outbox = <<>>
        /\ ~Includes(PersistedMonths, SheetLabel)

-----------------------------------------------------------------------------
(* Properties of getMonthNumberFromName (specification SpecMonth) *)

\* C10: getMonthNumberFromName answers for every name; every spelling of the k-th
\* month name, in any letter case, gives k - 1, so the twelve names map one to one
\* onto 0..11; a name that is no month gives -1
C10_MonthNumberBijection ==
    pc = "answered" =>
        /\ nameResult \in -1..11
        /\ \A k \in 1..Len(months) : SpellsMonth(nameArg, k) => nameResult = k - 1
        /\ nameArg \in OtherNames => nameResult = -1
        /\ nameResult >= 0 => SpellsMonth(nameArg, nameResult + 1)

\* DECEMBER in upper case gave 11
C10_Witness ==
    /\ pc = "answered"
    /\ nameArg = Spelling(months[12], "upper")
    /\ nameArg # months[12]
    /\ nameResult = 11

-----------------------------------------------------------------------------
(* Properties of the contact email's template and recipients (Spec) *)

RowOfMail(k) == data[outbox[k].row]

\* The seen date of the row lies in today's month of today's year
CurrentPeriodRow(row) ==
    ValidDate(row.dateSeenRaw) /\ PeriodOf(row.dateSeenRaw.day) = PeriodOf(today.day)

\* Whole days from today to the last day of today's month
CalendarDaysLeft == MonthStart(PeriodOf(today.day) + 1) - 1 - today.day

WorkerAddress(row) ==
    IF row.seenBy = MAIN_WORKER_NAME THEN MAIN_WORKER_EMAIL
    ELSE getWorkerInfoByName(row.seenBy).workerEmail

SupervisorAddress(row) ==
    IF row.seenBy = MAIN_WORKER_NAME THEN MAIN_SUPERVISOR_EMAIL
    ELSE getWorkerInfoByName(row.seenBy).supervisorEmail

\* C11: an email is of the post-month kind exactly when the seen date lies in a
\* month, year included, before today's; the code compares the month numbers
\* alone, so a row seen in December and sent in January is not post-month
C11_PostMonthIffEarlierPeriod ==
    \A k \in 1..Len(outbox) :
        (outbox[k].template = "postMonth")
            <=> (PeriodOf(RowOfMail(k).dateSeenRaw.day) < PeriodOf(today.day))

\* C12: in the last seven days of the month the email of a current-month row is
\* addressed to worker and supervisor with the manager in bcc; the code addresses
\* the worker alone and puts supervisor and manager in bcc
C12_ReprimandingVisibleSupervisor ==
    \A k \in 1..Len(outbox) :
        (CurrentPeriodRow(RowOfMail(k)) /\ CalendarDaysLeft <= 7) =>
            /\ outbox[k].to = <<WorkerAddress(RowOfMail(k)), SupervisorAddress(RowOfMail(k))>>
            /\ outbox[k].bcc = <<SSM_EMAIL>>

-----------------------------------------------------------------------------
(* Properties of the worker's address, the lookup and the cell write (Spec) *)

\* C14: a row of the main worker's name is mailed to the configured main worker
\* with the configured main supervisor first in bcc, whatever the roster holds
\* under that name, and is never a lookup miss; a row of any other name is mailed
\* to the addresses of the record the roster lookup returns
C14_MainWorkerBypassesLookup ==
    /\ \A i \in 1..rowIdx :
           data[i].seenBy = MAIN_WORKER_NAME => events[i] # "lookupMiss"
    /\ \A k \in 1..Len(outbox) :
           LET row == RowOfMail(k)
               rec == getWorkerInfoByName(row.seenBy)
           IN  IF row.seenBy = MAIN_WORKER_NAME
               THEN /\ outbox[k].to = <<MAIN_WORKER_EMAIL>>
                    /\ Head(outbox[k].bcc) = MAIN_SUPERVISOR_EMAIL
                    /\ outbox[k].greeting = MAIN_WORKER_NAME
               ELSE /\ rec.found
                    /\ outbox[k].to = <<rec.workerEmail>>
                    /\ Head(outbox[k].bcc) = rec.supervisorEmail
                    /\ outbox[k].greeting = rec.workerName

\* The roster holds another address under the main worker's name; a row of that
\* name went to the configured address and a row of Bo to the roster's address
C14_Witness ==
    /\ getWorkerInfoByName(MAIN_WORKER_NAME).found
    /\ getWorkerInfoByName(MAIN_WORKER_NAME).workerEmail # MAIN_WORKER_EMAIL
    /\ \E k \in 1..Len(outbox) :
           /\ RowOfMail(k).seenBy = MAIN_WORKER_NAME
           /\ outbox[k].to = <<MAIN_WORKER_EMAIL>>
           /\ outbox[k].delivered
    /\ \E k \in 1..Len(outbox) :
           /\ RowOfMail(k).seenBy = NameBo
           /\ outbox[k].to = <<"bo@cps">>
           /\ outbox[k].bcc[1] = "sam@cps"

\* C15: a lookup miss leaves the row without email, write and count, and no email
\* is ever requested for a blank worker address; the code requests one when the
\* roster record of the worker has a blank email cell
C15_NoRequestToBlankAddress ==
    /\ \A i \in 1..rowIdx :
           events[i] = "lookupMiss" =>
               MailsOfRow(i) = {} /\ WritesOfRow(i) = {} /\ i \notin SentEvents
    /\ \A k \in 1..Len(outbox) :
           \A a \in 1..Len(outbox[k].to) : outbox[k].to[a] # ""

\* MM/dd/yyyy of today
TodayStamp == <<getMonth(today) + 1, getDate(today), getFullYear(today)>>

\* C16: every write of a scan goes to column 6 of a row of the sheet whose email
\* was delivered in this scan and that counts as sent, and holds today's date; a
\* row that was skipped or whose send failed has no write, a sent row has one
C16_OnlyLastReminderAfterSend ==
    /\ \A w \in writes :
           /\ w.column = 6
           /\ w.value = TodayStamp
           /\ w.row - 1 \in SentEvents
           /\ \E k \in MailsOfRow(w.row - 1) : outbox[k].delivered
    /\ \A i \in 1..rowIdx :
           Cardinality(WritesOfRow(i)) = IF i \in SentEvents THEN 1 ELSE 0

\* On 2024-12-25 the first data row's send failed and the second's succeeded:
\* the one write is 12/25/2024 in column 6 of sheet row 3
C16_Witness ==
    /\ events = <<"sendFailed", "sent">>
    /\ writes = {[row |-> 3, column |-> 6, value |-> <<12, 25, 2024>>]}

-----------------------------------------------------------------------------
(* Failures of single rows, in either engine (SpecScans) *)

ContactScan == clock \in Days
SummaryScan == clock \in SummaryDays

\* Rows of the sheet whose send or cell write threw
FailedContactRows == {i \in 1..Len(events) : events[i] \in {"sendFailed", "writeFailed"}}

\* Rows of the summary sheet whose send threw
FailedSummaryRows == {outbox[k].row : k \in {n \in 1..Len(outbox) : ~outbox[n].delivered}}

\* A contact row that is due a reminder today and whose worker has an address
QualifiesToday(row) ==
    /\ Outstanding(row)
    /\ ValidDate(row.dateSeenRaw)
    /\ \/ PeriodOf(row.dateSeenRaw.day) = PeriodOf(today.day)
       \/ PeriodOf(row.dateSeenRaw.day) < PeriodOf(today.day) /\ getDay(today) = 1
    /\ row.seenBy \in {NameAl, NameBo}

\* C17: after a row whose send failed the scan goes on: the failed row does not
\* count as sent, every later row that is due an email has its email requested,
\* and the scan ends only when every row of the sheet has been evaluated; this
\* holds for the contact scan and for the summary scan
C17_RowFailureDoesNotAbortScan ==
    /\ [](ContactScan =>
            /\ remindersSent = Cardinality(SentEvents)
            /\ FailedContactRows \cap SentEvents = {}
            /\ \A i \in FailedContactRows : \A j \in (i + 1)..rowIdx :
                   QualifiesToday(data[j]) =>
                       /\ MailsOfRow(j) # {}
                       /\ events[j] \in {"sent", "sendFailed", "writeFailed"}
            /\ FailedContactRows # {} => pc \in {"rows", "sheets", "idle"})
    /\ [](SummaryScan =>
            /\ \A i \in FailedSummaryRows : \A j \in (i + 1)..rowIdx :
                   (Emailable(data[j]) /\ DayOffset(data[j]) >= -1) => MailsOfRow(j) # {}
            /\ FailedSummaryRows # {} => pc \in {"summaryRows", "idle"})
    /\ [][ (pc \in {"rows", "summaryRows"} /\ pc' # pc) =>
               /\ rowIdx = Len(data)
               /\ Len(events) = Len(data)
               /\ pc' \in {"sheets", "idle"}
         ]_vars

\* The send of the first row failed, the second row was sent and counted, and the
\* sheet's scan returned
C17_Witness ==
    /\ ContactScan
    /\ pc = "sheets"
    /\ decision = "kept"
    /\ events = <<"sendFailed", "sent">>
    /\ remindersSent = 1
    /\ Len(outbox) = 2 /\ ~outbox[1].delivered /\ outbox[2].delivered

-----------------------------------------------------------------------------
(* Malformed rows and the order of a sheet's scan (Spec) *)

Malformed(row) ==
    row.childName = "" \/ ~ValidDate(row.dateSeenRaw) \/ row.seenBy = <<>>

\* C18: a row without child name, without a seen date that is a date, or without
\* a worker is passed over before the lookup: no lookup miss, no email request,
\* no write, no count; the rows after it are evaluated all the same
C18_MalformedRowSkipped ==
    /\ Len(events) = rowIdx
    /\ \A i \in 1..rowIdx :
           Malformed(data[i]) =>
               /\ events[i] \in {"skipMissing", "skipEntered", "skipBadDate"}
               /\ MailsOfRow(i) = {}
               /\ WritesOfRow(i) = {}
               /\ i \notin SentEvents
               /\ remindersSent = Cardinality(SentEvents \ {i})

\* A row whose seen date is a text that is no date was passed over and the row
\* after it was sent
C18_Witness ==
    /\ rowIdx = 2
    /\ data[1].dateSeenRaw = TextCell
    /\ ~Truthy(data[1].dateContactEntered)
    /\ events = <<"skipBadDate", "sent">>
    /\ remindersSent = 1

MailRowsIncrease ==
    \A k \in 1..Len(outbox) : \A n \in 1..Len(outbox) :
        k < n => outbox[k].row < outbox[n].row

\* C19: a scan evaluates the rows of the sheet one by one from the first to the
\* last, each once; the sheet is marked complete or kept only after its last row;
\* the counter tested then is the number of rows of the sheet reported sent
C19_RowsInOrderThenCompletion ==
    /\ [](/\ Len(events) = rowIdx
          /\ rowIdx <= Len(data)
          /\ MailRowsIncrease
          /\ \A k \in 1..Len(outbox) : outbox[k].row \in 1..rowIdx
          /\ remindersSent = Cardinality(SentEvents)
          /\ pc = "rows" => decision = "scan"
          /\ decision \in {"added", "kept"} => rowIdx = Len(data)
          /\ decision = "added" => SentEvents = {} /\ getDay(today) = 1
          /\ (decision = "kept" /\ getDay(today) = 1) => SentEvents # {})
    /\ [][ /\ (pc = "rows" /\ pc' = "rows") =>
                 /\ rowIdx' = rowIdx + 1
                 /\ data' = data
                 /\ SubSeq(events', 1, rowIdx) = events
           /\ (decision' \in {"added", "kept"} /\ decision' # decision) =>
                 /\ pc = "rows"
                 /\ rowIdx = Len(data)
                 /\ UNCHANGED <<events, remindersSent, rowIdx>>
         ]_vars

\* On a Monday both rows of a sheet were sent, the counter is two and the sheet
\* was kept
C19_Witness ==
    /\ getDay(today) = 1
    /\ decision = "kept"
    /\ rowIdx = 2
    /\ events = <<"sent", "sent">>
    /\ remindersSent = 2
    /\ outbox[1].row = 1 /\ outbox[2].row = 2

-----------------------------------------------------------------------------
(* The summary scan keeps no state of its sends (SpecSummary) *)

\* What a row gets on a day, from the row's fields and the day alone
SummaryEventOn(row, day) ==
    IF row.submitted \/ row.dueDateRaw.kind = "empty" \/ lastNameOf(row.fullName) = <<>>
    THEN "skipped"
    ELSE IF row.dueDateRaw.kind # "date" THEN "none"
    ELSE TierOfOffset(day - row.dueDateRaw.day)

RecipientsOn(row, day) ==
    LET off == day - row.dueDateRaw.day
    IN  IF off \in {-1, 0} THEN <<MAIN_WORKER_EMAIL>>
        ELSE IF off \in 1..6 THEN <<MAIN_WORKER_EMAIL, MAIN_SUPERVISOR_EMAIL>>
        ELSE <<MAIN_WORKER_EMAIL, MAIN_SUPERVISOR_EMAIL, SSM_EMAIL>>

MailedRowsOn(rows, day) ==
    {i \in 1..Len(rows) : SummaryEventOn(rows[i], day) \notin {"skipped", "none"}}

\* C20: the summary scan writes no cell and no variable, and what it does with a
\* row follows from the row's fields and today's date alone, not from the hour,
\* from earlier rows or from earlier invocations: every invocation of a day
\* requests the same email, to the same recipients, for the same row
C20_SummaryDecisionFromRowAndDay ==
    /\ writes = {}
    /\ varTable = <<>>
    /\ Len(events) = rowIdx
    /\ \A i \in 1..rowIdx : events[i] = SummaryEventOn(data[i], clock)
    /\ {outbox[k].row : k \in 1..Len(outbox)} = MailedRowsOn(SubSeq(data, 1, rowIdx), clock)
    /\ \A k \in 1..Len(outbox) :
           /\ Cardinality(MailsOfRow(outbox[k].row)) = 1
           /\ outbox[k].tier = SummaryEventOn(RowOfMail(k), clock)
           /\ outbox[k].to = RecipientsOn(RowOfMail(k), clock)
           /\ outbox[k].lastName = lastNameOf(RowOfMail(k).fullName)

\* The second invocation of 2024-03-15, in the afternoon, again delivered the
\* 1-6 days email for a row due on 2024-03-10 to worker and supervisor
C20_Witness ==
    /\ invocation = 2
    /\ today = [day |-> DayOf(2024, 3, 15), hour |-> 15]
    /\ pc = "idle"
    /\ \E k \in 1..Len(outbox) :
           /\ RowOfMail(k).dueDateRaw = DueA
           /\ outbox[k].tier = "minorOverdue"
           /\ outbox[k].to = <<MAIN_WORKER_EMAIL, MAIN_SUPERVISOR_EMAIL>>
           /\ outbox[k].delivered

-----------------------------------------------------------------------------
(* Escalation of the summary reminders over the days (SpecEscalation) *)

SameCase(m, row) == m.fullName = row.fullName /\ m.dueDateRaw = row.dueDateRaw

\* C21: for a case that stays unsubmitted with the same due date, from the day
\* before the due date on every daily run requests an email, and the recipients
\* of a day include those of the day before: worker, then worker and supervisor
\* from 1 day late, then worker, supervisor and manager from 7 days late
C21_EscalationNeverShrinks ==
    /\ \A m \in mailLog :
           LET off == m.day - m.dueDateRaw.day
           IN  /\ off >= -1
               /\ Range(m.to) = {MAIN_WORKER_EMAIL}
                                  \cup (IF off >= 1 THEN {MAIN_SUPERVISOR_EMAIL} ELSE {})
                                  \cup (IF off >= 7 THEN {SSM_EMAIL} ELSE {})
    /\ \A m1, m2 \in mailLog :
           (m2.day = m1.day + 1 /\ m1.fullName = m2.fullName /\ m1.dueDateRaw = m2.dueDateRaw)
               => Range(m1.to) \subseteq Range(m2.to)
    /\ (pc = "idle" /\ invocation >= 1) =>
           \A i \in 1..Len(data) :
               (Emailable(data[i]) /\ clock - data[i].dueDateRaw.day >= -1) =>
                   /\ \E m \in mailLog : m.day = clock /\ SameCase(m, data[i])
                   /\ \A m \in mailLog :
                          (m.day = clock - 1 /\ SameCase(m, data[i])) =>
                              \E n \in mailLog :
                                  /\ n.day = clock /\ SameCase(n, data[i])
                                  /\ Range(m.to) \subseteq Range(n.to)

\* The case due on 2024-03-10 got worker and supervisor on 2024-03-16 and worker,
\* supervisor and manager on 2024-03-17
C21_Witness ==
    /\ clock = DayOf(2024, 3, 17)
    /\ pc = "idle"
    /\ \E m1, m2 \in mailLog :
           /\ m1.dueDateRaw = DueA /\ m2.dueDateRaw = DueA
           /\ m1.fullName = m2.fullName
           /\ m1.day = DayOf(2024, 3, 16) /\ m2.day = DayOf(2024, 3, 17)
           /\ m1.to = <<MAIN_WORKER_EMAIL, MAIN_SUPERVISOR_EMAIL>>
           /\ m2.to = <<MAIN_WORKER_EMAIL, MAIN_SUPERVISOR_EMAIL, SSM_EMAIL>>

-----------------------------------------------------------------------------
(* Properties of the configuration resolver (specification SpecConfig) *)

\* The call of p is over
Finished(p) == proc[p].pc \in {"returned", "threw"}

\* C22: a resolution with required keys either returns a mapping that holds every
\* required key with a non-empty value or fails, and it fails only when the
\* mapping built by the forced read of the Variables tab still lacks a required key
C22_RequiredKeysOrFailure ==
    \A p \in DOMAIN proc :
        proc[p].op = "ensureGlobalVariables" =>
            /\ proc[p].pc = "returned" => missingKeys(proc[p].result, REQUIRED_KEYS) = <<>>
            /\ proc[p].pc = "threw" =>
                   /\ proc[p].pass = "forced"
                   /\ missingKeys(proc[p].loaded, REQUIRED_KEYS) # <<>>

\* The run in progress got the empty mapping from getGlobalVariables: the cache
\* and the durable store hold nothing and the Variables tab had no valid row
UnresolvedRun ==
    /\ pc \in {"sheets", "read", "rows"}
    /\ proc[1].op = "getGlobalVariables"
    /\ proc[1].pc = "returned"
    /\ proc[1].result = <<>>
    /\ ~scriptCache.present
    /\ ~scriptProperties.present
    /\ loadAutomationInfoSheet(SelectSeq(varTable, LAMBDA row : row[1] # CompleteMonthsKey))
           = <<>>

NonForced(p) ==
    \/ proc[p].op = "getGlobalVariables"
    \/ proc[p].op = "ensureGlobalVariables" /\ build = "part_001"

RefreshReturns(p) ==
    /\ proc[p].pc \in {"cachePut", "propsSet"}
    /\ proc'[p].pc \in {"returned", "check"}

\* Both writes of the refresh took effect
WritesSucceeded(p) == proc'[p].log[Len(proc'[p].log)] = "props.set"

\* The caller of the refresh gets value: ensureGlobalVariables of GlobalVarsCache.js
\* as its vars, the functions of part_001 through filterVars
RefreshGives(p, value) ==
    LET n == proc'[p]
    IN  IF n.pc = "check" THEN n.vars = value
        ELSE IF n.op = "refreshGlobalVariablesCache" \/ build = "GlobalVarsCache.js"
        THEN n.result = value
        ELSE n.result = filterVars(value, n.keys)

WrittenThrough(p) ==
    /\ scriptCache' = EntryOf(proc[p].loaded)
    /\ scriptProperties' = EntryOf(proc[p].loaded)
    /\ RefreshGives(p, proc[p].loaded)

C26_FailedWriteStillReturnsMapping ==
    [][\A p \in DOMAIN proc :
           (RefreshReturns(p) /\ ~WritesSucceeded(p)) =>
               /\ proc'[p].log[Len(proc'[p].log)] \in {"cache.put failed", "props.set failed"}
               /\ proc[p].loaded # <<>>
               /\ RefreshGives(p, proc[p].loaded)]_vars

-----------------------------------------------------------------------------
(* The tiers under concurrent executions (specification SpecRace) *)

\* The mappings a single read of a Variables tab builds
LoadableMappings == {loadAutomationInfoSheet(t) : t \in ConfigTables}

WholeMapping(entry) == ~entry.present \/ JSONparse(entry.json) \in LoadableMappings \ {<<>>}

\* The execution that is about to write a tier with the mapping it holds
Writer(p, at) == proc[p].pc \in at /\ proc'[p] # proc[p]

\* C27: the cache and the durable store each hold nothing or the complete mapping
\* of one single source read, also while two refreshes race and when a refresh
\* fails part-way; a write replaces the whole entry of its tier with the writer's
\* mapping, so the last writer wins
C27_TiersHoldWholeMappings ==
    /\ [](WholeMapping(scriptCache) /\ WholeMapping(scriptProperties))
    /\ [][/\ scriptCache' # scriptCache =>
                \/ scriptCache' = NoEntry
                \/ \E p \in DOMAIN proc :
                       /\ Writer(p, {"cachePut", "cacheFill"})
                       /\ scriptCache' = EntryOf(proc[p].vars)
          /\ scriptProperties' # scriptProperties =>
                \E p \in DOMAIN proc :
                    /\ Writer(p, {"propsSet"})
                    /\ scriptProperties' = EntryOf(proc[p].loaded)]_vars

\* Two refreshes that read different tabs have both returned: the cache holds the
\* mapping of the first, the durable store the mapping of the second
C27_Witness ==
    /\ \A p \in {1, 2} :
           /\ proc[p].op = "refreshGlobalVariablesCache"
           /\ proc[p].pc = "returned"
           /\ proc[p].result # <<>>
    /\ proc[1].result # proc[2].result
    /\ scriptCache = EntryOf(proc[1].result)
    /\ scriptProperties = EntryOf(proc[2].result)

-----------------------------------------------------------------------------
(* The marker rows under concurrent updates (specification SpecUpdates) *)

RowsOf(key) == {i \in DOMAIN varTable : varTable[i][1] = key}

\* C28: after any updates of a marker key, also interleaved with one another and
\* with a scheduled refresh, the tab holds at most one row of that key, and the
\* rows of the other keys are as they were
C28_OneRowPerKey ==
    /\ \A key \in {UrlMarker, SheetsMarker} : Cardinality(RowsOf(key)) <= 1
    /\ SubSeq(varTable, 1, Len(BaseRows)) = BaseRows

-----------------------------------------------------------------------------
(* Round trip of the update (specification SpecRoundTrip) *)

\* The last update is over and its refresh wrote the cache and the property
UpdateDone ==
    /\ proc[1].op = "updateGlobalVariable"
    /\ proc[1].pc = "returned"
    /\ proc[1].log[Len(proc[1].log)] = "props.set"

\* The text the update wrote: the value cell of the row of CONTACT_COMPLETE_MONTHS
WrittenText == varTable[FoundRow(varTable, CompleteMonthsKey)][2]

\* The mapping holds the written text under CONTACT_COMPLETE_MONTHS
Observes(mapping) ==
    /\ hasOwnProperty(mapping, CompleteMonthsKey)
    /\ ValueOf(mapping, CompleteMonthsKey) = WrittenText

\* A resolution that returns every key or is asked for CONTACT_COMPLETE_MONTHS
AsksForCompleteMonths(r) == r.keys = <<>> \/ r.keys = <<CompleteMonthsKey>>

-----------------------------------------------------------------------------
(* The directory lookup (specification SpecLookup) *)

\* The places <<tab, row>> whose name cell is not empty and, trimmed, is the
\* trimmed name asked for, character by character
NamePlaces ==
    {place \in (DOMAIN data) \X {1, 2} :
        /\ data[place[1]].present
        /\ place[2] \in DOMAIN data[place[1]].rows
        /\ data[place[1]].rows[place[2]].workerName # <<>>
        /\ trim(data[place[1]].rows[place[2]].workerName) = trim(nameArg)}

Earlier(a, b) == a[1] < b[1] \/ (a[1] = b[1] /\ a[2] <= b[2])

\* C30: the lookup returns the record of the earliest occurrence of the name,
\* CPSEmployeeInfo before Additional Workers Info and rows top to bottom, names
\* compared trimmed and case-sensitively; it returns nothing for an empty name or
\* a name that occurs nowhere
C30_FirstMatchInPriorityOrder ==
    pc = "told" =>
        IF nameArg = <<>> \/ NamePlaces = {}
        THEN nameResult = NotFound
        ELSE LET first == CHOOSE a \in NamePlaces : \A b \in NamePlaces : Earlier(a, b)
                 row == data[first[1]].rows[first[2]]
             IN  /\ nameResult.found
                 /\ nameResult.workerName = row.workerName
                 /\ nameResult.workerEmail = EmailAt[first[1]][first[2]]
                 /\ nameResult.supervisorName = row.supervisorName
                 /\ nameResult.supervisorEmail = row.supervisorEmail

\* "Bo" is asked for; it stands twice in CPSEmployeeInfo, padded in row 1, and
\* twice in Additional Workers Info; the record of CPSEmployeeInfo row 1 is returned
C30_Witness ==
    /\ pc = "told"
    /\ nameArg = <<"B", "o">>
    /\ Cardinality(NamePlaces) = 3
    /\ <<1, 1>> \in NamePlaces /\ <<1, 2>> \in NamePlaces /\ <<2, 2>> \in NamePlaces
    /\ nameResult.workerEmail = "one@cps"
    /\ nameResult.workerName = <<" ", "B", "o">>

-----------------------------------------------------------------------------
(* The directory lookup on incomplete rosters (specification SpecDirectory) *)

\* Some row of a present tab carries the name asked for in its workerName column
SomeTabMatches ==
    \E t \in DOMAIN data :
        /\ data[t].present
        /\ \E c \in DOMAIN data[t].headers :
               /\ data[t].headers[c] = "workerName"
               /\ \A b \in 1..(c - 1) : data[t].headers[b] # "workerName"
               /\ \E i \in DOMAIN data[t].rows :
                      /\ data[t].rows[i][c] # <<>>
                      /\ trim(data[t].rows[i][c]) = trim(nameArg)

-----------------------------------------------------------------------------
(* Addresses of the delivery requests of both engines (specification SpecScans) *)

\* C32: every delivery request of the summary engine and of the contact engine
\* carries only non-blank addresses in its recipient list and in its bcc list
C32_RequestsCarryNoBlankAddress ==
    \A k \in DOMAIN outbox :
        /\ \A a \in DOMAIN outbox[k].to : outbox[k].to[a] # ""
        /\ "bcc" \in DOMAIN outbox[k] =>
               \A b \in DOMAIN outbox[k].bcc : outbox[k].bcc[b] # ""

-----------------------------------------------------------------------------
(* Reminders from day to day (specification SpecDaily) *)

\* The worker of the row resolves to an address
WorkerResolves(row) ==
    \/ row.seenBy = MAIN_WORKER_NAME
    \/ /\ getWorkerInfoByName(row.seenBy).found
       /\ getWorkerInfoByName(row.seenBy).workerEmail # ""

\* A well-formed row whose contact is not entered
OpenContact(row) ==
    /\ row.childName # "" /\ ValidDate(row.dateSeenRaw) /\ row.seenBy # <<>>
    /\ ~Truthy(row.dateContactEntered)
    /\ WorkerResolves(row)

\* The run of the day asked the mail service for the email of row i
Requested(i) == i \in DOMAIN events /\ events[i] \in {"sent", "writeFailed", "sendFailed"}

\* C33: as long as no delivery has failed, a run sends the reminder of every
\* outstanding row of the current period, on every day of the period, also on the
\* days after a Monday run that sent nothing
C33_CurrentPeriodRemindedDaily ==
    (pc = "ran" /\ outbox = <<>>) =>
        \A i \in DOMAIN data :
            (OpenContact(data[i]) /\ PeriodOf(data[i].dateSeenRaw.day) = PeriodOf(today.day))
                => Requested(i)

\* C34: as long as no delivery has failed, a Monday run sends the reminder of
\* every outstanding row of an earlier period, also when the earlier period is
\* December and the run is in January
C34_PastDueRemindedEveryMonday ==
    (pc = "ran" /\ getDay(today) = 1 /\ outbox = <<>>) =>
        \A i \in DOMAIN data :
            (OpenContact(data[i]) /\ PeriodOf(data[i].dateSeenRaw.day) < PeriodOf(today.day))
                => Requested(i)

-----------------------------------------------------------------------------
(* Overlapping runs and the completed months (specification SpecOverlap) *)

PersistedLabels == ParseCompleteMonths(LoadedValue(varTable, CompleteMonthsKey))

\* C35: an overlapping run works on the list it parsed at its start: its list is
\* that list followed by its own additions, and each time it persists, the tab
\* holds exactly its list, whatever the other run persisted in between
C35_RunPersistsItsOwnList ==
    /\ [](\A r \in DOMAIN proc : proc[r].completeMonths = proc[r].startMonths \o proc[r].added)
    /\ [][varTable' # varTable =>
            \E r \in DOMAIN proc :
                /\ proc'[r].added # proc[r].added
                /\ ParseCompleteMonths(LoadedValue(varTable', CompleteMonthsKey))
                       = proc'[r].completeMonths]_vars

\* Both runs are over, each added one label, the labels differ, and the tab
\* lacks the label of the first run
C35_Witness ==
    /\ proc[1].pc = "done" /\ proc[2].pc = "done"
    /\ Len(proc[1].added) = 1 /\ Len(proc[2].added) = 1
    /\ proc[1].added # proc[2].added
    /\ ~Includes(PersistedLabels, proc[1].added[1])
    /\ Includes(PersistedLabels, proc[2].added[1])

-----------------------------------------------------------------------------
(* The completed months from run to run (specification Spec) *)

\* A run has parsed the list and has not been aborted
RunHasList == pc \in {"sheets", "read", "rows"} \/ (pc = "idle" /\ sheetIdx = Len(Workbook))

\* C36: in a run and after it the tab holds the labels the run started with
\* together with the labels it added, an added label being that of a sheet whose
\* scan on a Monday sent nothing; no label the run started with is dropped, and
\* a later addition of the run keeps the earlier ones
C36_CompletedMonthsOnlyGrow ==
    /\ [](RunHasList =>
            /\ Range(PersistedLabels) = Range(completeMonths)
            /\ Len(startMonths) <= Len(completeMonths)
            /\ SubSeq(completeMonths, 1, Len(startMonths)) = startMonths)
    /\ [][(pc = "rows" /\ pc' = "sheets") =>
            completeMonths' = IF isMonday /\ remindersSent = 0
                              THEN Append(completeMonths, monthMatch(Workbook[sheetIdx]))
                              ELSE completeMonths]_vars

\* A Monday run that started with labels on the tab has added two more, and the
\* tab holds all of them
C36_Witness ==
    /\ pc = "idle" /\ sheetIdx = Len(Workbook)
    /\ startMonths # <<>>
    /\ Len(completeMonths) = Len(startMonths) + 2
    /\ Range(PersistedLabels) = Range(completeMonths)
    /\ Cardinality(Range(completeMonths)) = Len(completeMonths)

-----------------------------------------------------------------------------
(* The counter of a sheet and the emails that went out (specification Spec) *)

\* The rows of the sheet whose email the mail service accepted in this scan
DeliveredRows == {i \in 1..Len(events) : events[i] \in {"sent", "writeFailed"}}

\* C37: the counter of a sheet is the number of its rows whose email the mail
\* service accepted in this run, a row whose cell write failed afterwards
\* included, so a sheet from which an email went out is not marked complete
C37_CounterCountsDeliveredRows ==
    pc \in {"rows", "sheets"} =>
        /\ remindersSent = Cardinality(DeliveredRows)
        /\ decision = "added" => DeliveredRows = {}

-----------------------------------------------------------------------------
(* C38: configuration resolution always terminates.  Whatever the cache, the    *)
(* script properties, the Variables tab, the url global and the stored url      *)
(* hold, a call of ensureGlobalVariables, getGlobalVariables or                 *)
(* ensureAutomationInfoSheetURL returns or throws after finitely many calls:    *)
(* the chains ensureGlobalVariables -> getGlobalVariables ->                    *)
(* ensureGlobalVariables and ensureAutomationInfoSheetURL ->                    *)
(* getGlobalVariables -> ensureAutomationInfoSheetURL never fill the stack.     *)

C38_ResolutionTerminates ==
    (proc[1].status = "running") ~> (proc[1].status \in {"returned", "threw"})

\* A call has returned in whose chain a function was called again while a frame
\* of it was on the stack
C38_Witness == proc[1].status = "returned" /\ proc[1].reentered

=============================================================================
